---------------------------- MODULE Spec2Model ----------------------------
(***************************************************************************)
(* Round settlement engine of the Winza contracts.                         *)
(*                                                                         *)
(*   lottery-rounds : src/smartcontract/lottery-rounds/src/{state,contract}.rs *)
(*   rounds         : src/smartcontract/rounds/src/{state,contract}.rs     *)
(*   lottery-app    : src/smartcontract/lottery-app/src/contract.rs        *)
(*                                                                         *)
(* The two applications own disjoint storage and never call each other, so *)
(* a behaviour follows the operations of one of them; `app` says which.    *)
(* An operation that panics is rolled back by the host: the storage is     *)
(* unchanged, so a failed operation is no step of the model.               *)
(***************************************************************************)
EXTENDS Integers, Sequences, FiniteSets, TLC

VARIABLES
    app,          \* which application's chain of operations is followed
    lottery,      \* LotteryRoundsState (lottery-rounds/src/state.rs:51-66)
    prediction,   \* RoundsState (rounds/src/state.rs:44-68)
    response,     \* response of the last round operation, with the calls it made
    ticket_origin, \* history: origin chain of the purchase that assigned each ticket
    rewards_sent  \* history: SendReward calls received by the token application

vars == <<app, lottery, prediction, response, ticket_origin, rewards_sent>>

-----------------------------------------------------------------------------
(* Option<T> *)

None == << >>
Some(x) == <<x>>
IsSome(o) == o # << >>
Unwrap(o) == o[1]

-----------------------------------------------------------------------------
(* Bounds of the model *)

\* highest round id the lottery creates
MaxLotteryRounds == 2
\* highest round id the prediction application creates
MaxPredictionRounds == 3
\* tickets held by all stored lottery rounds together
MaxTickets == 5
\* amount staked in all stored prediction rounds together
MaxStake == 3
\* up_bets + down_bets of all stored prediction rounds together
MaxBetCount == 3
\* tickets of all stored rounds together when rounds are sold in bulk
MaxBulkTickets == 14
\* highest round id when the history is long enough to be purged
MaxPurgeRounds == 7
\* tickets of all stored rounds together in the long history
MaxPurgeTickets == 12
\* width of the model's u64 (seed arithmetic wraps modulo 2^WordBits)
WordBits == 4
\* width of the model's u128 Amount
AmountBits == 15
\* attos in Amount::from_tokens(1), scaled down from 10^18
OneToken == 3

Owners == {"o1", "o2"}
ThisChain == "chain0"
ValidChainIds == {"chain0", "chainA"}
TicketPrices == {2}
PurchaseAmounts == {1, 4, 5}
\* also an amount that buys 2^WordBits tickets at price 2
PurchaseAmountsWide == PurchaseAmounts \cup {2 * 2^WordBits}
Seeds == {1, 2^WordBits - 1}
Timestamps == {1}
SourceChains == {None, Some("chainA")}
BetAmounts == {1}
\* each bettor stakes from a home chain: o1 on the executing chain, o2 from chainA
Bettors == {<<"o1", None>>, <<"o2", Some("chainA")>>}
ClosingPrices == {2}
ResolutionPrices == {1, 2, 3}
\* a parsable chain id leaves the storage as None does; only the unparsable one differs
LeaderboardChains == {None, Some("not-a-chain")}

\* bulk sales: ticket prices, and amounts that buy 7 or 14 tickets at price 2
\* and 4 tickets at the high price
BulkPrices == {2, (2^AmountBits - 1) \div 100}
BulkAmounts == {14, 28, 4 * ((2^AmountBits - 1) \div 100)}

\* long history: an amount that buys 6 tickets at price 2
PurgeAmounts == {12}
PurgeSeeds == {1}

\* inputs of the payout arithmetic
CalcStakes == {0, 1, 3, 40, 100, 300}
CalcQuotas == {0, 1, 2, 3}
WinnerPools == {"Pool1", "Pool2", "Pool3", "Pool4", "Complete"}

-----------------------------------------------------------------------------
(* MapView and fixed-width helpers *)

EmptyMap == << >>
MapInsert(m, k, v) == [x \in (DOMAIN m) \cup {k} |-> IF x = k THEN v ELSE m[x]]
MapRemove(m, k) == [x \in (DOMAIN m) \ {k} |-> m[x]]

U64Modulus == 2^WordBits
AmountModulus == 2^AmountBits
AmountMax == AmountModulus - 1

\* mutant: the sum stops at the largest u64 instead of wrapping
wrapping_add_stuck(a, b) == IF a + b >= U64Modulus THEN U64Modulus - 1 ELSE a + b

wrapping_add(a, b) == (a + b) % U64Modulus
saturating_add(a, b) == IF a + b > AmountMax THEN AmountMax ELSE a + b

RECURSIVE SumOver(_, _)
SumOver(S, f) ==
    IF S = {} THEN 0
    ELSE LET x == CHOOSE y \in S : TRUE IN f[x] + SumOver(S \ {x}, f)

-----------------------------------------------------------------------------
(* lottery-rounds: prize arithmetic *)

MAX_HISTORY_ROUNDS == 5

Percentage(pool) ==
    CASE pool = "Pool1" -> 20
      [] pool = "Pool2" -> 25
      [] pool = "Pool3" -> 30
      [] pool = "Pool4" -> 25
      [] OTHER -> 0

\* mutant: the division by 100 is forgotten
calculate_prize_for_pool_nodiv(prize_pool, pool) ==
    (prize_pool * Percentage(pool)) % AmountModulus

calculate_prize_for_pool(prize_pool, pool) ==
    ((prize_pool * Percentage(pool)) % AmountModulus) \div 100

\* mutant: the share of a winner is rounded up
calculate_prize_per_winner_up(prize_pool, pool, winners_in_pool) ==
    IF winners_in_pool = 0 THEN 0
    ELSE (calculate_prize_for_pool(prize_pool, pool) + winners_in_pool - 1) \div winners_in_pool

calculate_prize_per_winner(prize_pool, pool, winners_in_pool) ==
    IF winners_in_pool = 0 THEN 0
    ELSE calculate_prize_for_pool(prize_pool, pool) \div winners_in_pool

-----------------------------------------------------------------------------
(* lottery-rounds: state operations *)

LotteryInit ==
    [ round_counter   |-> 0,
      rounds          |-> EmptyMap,
      active_round    |-> None,
      ticket_purchases |-> EmptyMap,
      ticket_to_owner |-> EmptyMap,
      winning_tickets |-> EmptyMap,
      lottery_app_id  |-> None ]

\* mutant: a new round starts with ticket number 0
NewLotteryRound_zero(round_id, ticket_price, timestamp) ==
    [ id |-> round_id,
      created_at |-> timestamp,
      closed_at |-> None,
      status |-> "Active",
      ticket_price |-> ticket_price,
      total_tickets_sold |-> 0,
      next_ticket_number |-> 0,
      prize_pool |-> 0,
      current_winner_pool |-> "Pool1",
      pool1_count |-> 0, pool2_count |-> 0, pool3_count |-> 0, pool4_count |-> 0,
      pool1_winners_drawn |-> 0, pool2_winners_drawn |-> 0,
      pool3_winners_drawn |-> 0, pool4_winners_drawn |-> 0 ]

NewLotteryRound(round_id, ticket_price, timestamp) ==
    [ id |-> round_id,
      created_at |-> timestamp,
      closed_at |-> None,
      status |-> "Active",
      ticket_price |-> ticket_price,
      total_tickets_sold |-> 0,
      next_ticket_number |-> 1,
      prize_pool |-> 0,
      current_winner_pool |-> "Pool1",
      pool1_count |-> 0, pool2_count |-> 0, pool3_count |-> 0, pool4_count |-> 0,
      pool1_winners_drawn |-> 0, pool2_winners_drawn |-> 0,
      pool3_winners_drawn |-> 0, pool4_winners_drawn |-> 0 ]

cleanup_old_round(st, round_id) ==
    IF round_id \in DOMAIN st.rounds
    THEN LET total == st.rounds[round_id].total_tickets_sold
             gone == {<<round_id, t>> : t \in 1..total}
         IN [st EXCEPT
               !.ticket_to_owner = [k \in (DOMAIN st.ticket_to_owner) \ gone |-> st.ticket_to_owner[k]],
               !.winning_tickets = [k \in (DOMAIN st.winning_tickets) \ gone |-> st.winning_tickets[k]],
               !.rounds = MapRemove(st.rounds, round_id)]
    ELSE st

\* mutant: the pointer stays one round behind the round created
PointerAfterCreate_behind(round_id) ==
    IF round_id > 1 THEN Some(round_id - 1) ELSE Some(round_id)

\* active_round after a create (state.rs:196)
PointerAfterCreate(round_id) == Some(round_id)

create_lottery_round(st, ticket_price, timestamp) ==
    LET round_id == st.round_counter + 1
        s1 == [st EXCEPT !.round_counter = round_id]
        s2 == IF round_id > MAX_HISTORY_ROUNDS
              THEN cleanup_old_round(s1, round_id - MAX_HISTORY_ROUNDS)
              ELSE s1
    IN [s2 EXCEPT
          !.rounds = MapInsert(s2.rounds, round_id, NewLotteryRound(round_id, ticket_price, timestamp)),
          !.active_round = PointerAfterCreate(round_id)]

\* mutant: the ticket count is rounded up
TicketCount_ceil(amount, ticket_price) == (amount + ticket_price - 1) \div ticket_price

\* tickets an amount buys: amount_u128 / ticket_price_u128 (state.rs:229)
TicketCount(amount, ticket_price) == amount \div ticket_price

\* Result<TicketPurchase, String> together with the state it leaves
purchase_tickets(st, owner, amount, source_chain_id) ==
    IF ~IsSome(st.active_round) THEN [ok |-> FALSE, err |-> "No active round", state |-> st]
    ELSE LET round_id == Unwrap(st.active_round) IN
    IF round_id \notin DOMAIN st.rounds
    THEN [ok |-> FALSE, err |-> "Active round not found", state |-> st]
    ELSE LET round == st.rounds[round_id] IN
    IF round.status # "Active"
    THEN [ok |-> FALSE, err |-> "No active round accepting ticket purchases", state |-> st]
    ELSE IF round.ticket_price = 0
    THEN [ok |-> FALSE, err |-> "Invalid ticket price in round", state |-> st]
    ELSE LET ticket_count == TicketCount(amount, round.ticket_price) IN
    IF ticket_count = 0
    THEN [ok |-> FALSE, err |-> "Amount too small", state |-> st]
    ELSE LET ticket_count_u64 == ticket_count % U64Modulus   \* `as u64`
             first_ticket == round.next_ticket_number
             last_ticket == first_ticket + ticket_count_u64 - 1
             purchase == [ owner |-> owner,
                           first_ticket |-> first_ticket,
                           last_ticket |-> last_ticket,
                           total_tickets |-> ticket_count_u64,
                           amount_paid |-> amount,
                           source_chain_id |-> source_chain_id ]
             new_keys == {<<round_id, t>> : t \in first_ticket..last_ticket}
             new_round == [round EXCEPT
                             !.next_ticket_number = last_ticket + 1,
                             !.total_tickets_sold = @ + ticket_count_u64,
                             !.prize_pool = saturating_add(@, amount)]
         IN [ ok |-> TRUE,
              purchase |-> purchase,
              round_id |-> round_id,
              state |-> [st EXCEPT
                  !.ticket_purchases = MapInsert(@, <<round_id, owner>>, purchase),
                  !.ticket_to_owner = [k \in (DOMAIN @) \cup new_keys |->
                                          IF k \in new_keys THEN owner ELSE @[k]],
                  !.rounds = MapInsert(@, round_id, new_round)] ]

\* mutant: a quota that floors to 0 stays 0
MinQuota_zero(count, total, threshold) == count

MinQuota(count, total, threshold) ==
    IF count = 0 /\ total > threshold THEN 1 ELSE count

\* mutant: the pointer is left on the round that was closed
LotteryPointerAfterClose_kept(round_id) == Some(round_id)

\* active_round after a close (state.rs:322)
LotteryPointerAfterClose(round_id) == None

\* mutant: the participation threshold is not checked
TooFewTickets_never(round) == FALSE

\* the participation threshold of a close (state.rs:289)
TooFewTickets(round) == round.total_tickets_sold < 4

close_lottery_round(st, timestamp) ==
    IF ~IsSome(st.active_round) THEN [ok |-> FALSE, err |-> "No active round to close", state |-> st]
    ELSE LET round_id == Unwrap(st.active_round) IN
    IF round_id \notin DOMAIN st.rounds
    THEN [ok |-> FALSE, err |-> "Active round not found", state |-> st]
    ELSE LET round == st.rounds[round_id] IN
    IF round.status # "Active"
    THEN [ok |-> FALSE, err |-> "Round is not active", state |-> st]
    ELSE IF TooFewTickets(round)
    THEN [ok |-> FALSE, err |-> "Cannot close round with fewer than 4 tickets sold", state |-> st]
    ELSE LET total_tickets == round.total_tickets_sold
             closed == [round EXCEPT
                 !.pool1_count = MinQuota((total_tickets * 15) \div 100, total_tickets, 0),
                 !.pool2_count = MinQuota((total_tickets * 7) \div 100, total_tickets, 1),
                 !.pool3_count = MinQuota((total_tickets * 5) \div 100, total_tickets, 2),
                 !.pool4_count = MinQuota((total_tickets * 3) \div 100, total_tickets, 3),
                 !.status = "Closed",
                 !.closed_at = Some(timestamp),
                 !.current_winner_pool = "Pool1"]
         IN [ ok |-> TRUE,
              round_id |-> round_id,
              state |-> [st EXCEPT !.rounds = MapInsert(@, round_id, closed),
                                   !.active_round = LotteryPointerAfterClose(round_id)] ]


PoolCount(round, pool) ==
    CASE pool = "Pool1" -> round.pool1_count
      [] pool = "Pool2" -> round.pool2_count
      [] pool = "Pool3" -> round.pool3_count
      [] pool = "Pool4" -> round.pool4_count
      [] OTHER -> 0

PoolDrawn(round, pool) ==
    CASE pool = "Pool1" -> round.pool1_winners_drawn
      [] pool = "Pool2" -> round.pool2_winners_drawn
      [] pool = "Pool3" -> round.pool3_winners_drawn
      [] pool = "Pool4" -> round.pool4_winners_drawn
      [] OTHER -> 0

\* mutant: a draw counts the tier quota down instead of the winners up
IncrementDrawn_quota(round, pool) ==
    CASE pool = "Pool1" -> [round EXCEPT !.pool1_count = @ - 1]
      [] pool = "Pool2" -> [round EXCEPT !.pool2_count = @ - 1]
      [] pool = "Pool3" -> [round EXCEPT !.pool3_count = @ - 1]
      [] pool = "Pool4" -> [round EXCEPT !.pool4_count = @ - 1]
      [] OTHER -> round

IncrementDrawn(round, pool) ==
    CASE pool = "Pool1" -> [round EXCEPT !.pool1_winners_drawn = @ + 1]
      [] pool = "Pool2" -> [round EXCEPT !.pool2_winners_drawn = @ + 1]
      [] pool = "Pool3" -> [round EXCEPT !.pool3_winners_drawn = @ + 1]
      [] pool = "Pool4" -> [round EXCEPT !.pool4_winners_drawn = @ + 1]
      [] OTHER -> round

\* mutant: tier 2 is skipped
NextPool_skip(pool) ==
    CASE pool = "Pool1" -> "Pool3"
      [] pool = "Pool3" -> "Pool4"
      [] OTHER -> "Complete"

NextPool(pool) ==
    CASE pool = "Pool1" -> "Pool2"
      [] pool = "Pool2" -> "Pool3"
      [] pool = "Pool3" -> "Pool4"
      [] OTHER -> "Complete"

\* mutant: the winners of all rounds are excluded
existing_winners_all(st, round_id) == {k[2] : k \in DOMAIN st.winning_tickets}

\* winning ticket numbers already recorded for the round
existing_winners(st, round_id) ==
    {k[2] : k \in {w \in DOMAIN st.winning_tickets : w[1] = round_id}}

\* mutant: a round whose tier is drawn out before the last goes back to Active
StatusAfterTier_reopen(pool, status) ==
    IF pool = "Pool4" THEN "Complete" ELSE "Active"

\* status of a round whose current tier is drawn out (state.rs:427-431)
StatusAfterTier(pool, status) ==
    IF pool = "Pool4" THEN "Complete" ELSE status

\* mutant: the candidate is taken without looking at the recorded winners
select_ticket_any(vrf_value, total, winners, attempts, max_attempts) ==
    IF attempts >= max_attempts THEN None
    ELSE Some((wrapping_add(vrf_value, attempts) % total) + 1)

\* the selection loop: Some(ticket), or None once attempts reach max_attempts
RECURSIVE select_ticket(_, _, _, _, _)
select_ticket(vrf_value, total, winners, attempts, max_attempts) ==
    IF attempts >= max_attempts THEN None
    ELSE LET seed == wrapping_add(vrf_value, attempts)
             ticket == (seed % total) + 1
         IN IF ticket \notin winners THEN Some(ticket)
            ELSE select_ticket(vrf_value, total, winners, attempts + 1, max_attempts)

\* mutant: only a Complete round is refused by the status test
RoundNotClosed_lax(round) == round.status = "Complete"

\* the status test of a draw (state.rs:338)
RoundNotClosed(round) == round.status # "Closed"

generate_winner(st, vrf_value, round_id, current_timestamp, default_ticket_price) ==
    IF round_id \notin DOMAIN st.rounds
    THEN [ok |-> FALSE, err |-> "Round not found", state |-> st]
    ELSE LET round == st.rounds[round_id] IN
    IF RoundNotClosed(round)
    THEN [ok |-> FALSE, err |-> "Round is not closed", state |-> st]
    ELSE IF round.current_winner_pool = "Complete"
    THEN [ok |-> FALSE, err |-> "All winners already drawn", state |-> st]
    ELSE LET pool == round.current_winner_pool
             winners_count == PoolCount(round, pool)
             winners_drawn == PoolDrawn(round, pool)
         IN
    IF winners_drawn >= winners_count
    THEN [ok |-> FALSE, err |-> "Current pool complete, should not happen", state |-> st]
    ELSE LET selected == select_ticket(vrf_value, round.total_tickets_sold,
                                       existing_winners(st, round_id), 0,
                                       round.total_tickets_sold * 2)
         IN
    IF ~IsSome(selected)
    THEN [ok |-> FALSE, err |-> "Failed to find unique winning ticket after many attempts", state |-> st]
    ELSE LET selected_ticket == Unwrap(selected) IN
    IF <<round_id, selected_ticket>> \notin DOMAIN st.ticket_to_owner
    THEN [ok |-> FALSE, err |-> "Ticket has no owner", state |-> st]
    ELSE LET owner == st.ticket_to_owner[<<round_id, selected_ticket>>]
             source_chain_id ==
                 IF <<round_id, owner>> \in DOMAIN st.ticket_purchases
                 THEN st.ticket_purchases[<<round_id, owner>>].source_chain_id
                 ELSE None
             prize_amount == calculate_prize_per_winner(round.prize_pool, pool, winners_count)
             s1 == [st EXCEPT !.winning_tickets =
                       MapInsert(@, <<round_id, selected_ticket>>,
                                 [ owner |-> owner, prize_amount |-> prize_amount,
                                   claimed |-> FALSE, source_chain_id |-> source_chain_id ])]
             drawn == IncrementDrawn(round, pool)
             current_pool_complete == PoolDrawn(drawn, pool) >= PoolCount(drawn, pool)
             advanced ==
                 IF current_pool_complete
                 THEN [drawn EXCEPT
                         !.current_winner_pool = NextPool(pool),
                         !.status = StatusAfterTier(pool, @)]
                 ELSE drawn
             new_round_created == current_pool_complete /\ advanced.current_winner_pool = "Complete"
             s2 == IF new_round_created
                   THEN create_lottery_round(s1, default_ticket_price, current_timestamp)
                   ELSE s1
         IN [ ok |-> TRUE,
              round_id |-> round_id,
              ticket_number |-> selected_ticket,
              owner |-> owner,
              prize_amount |-> prize_amount,
              new_round_created |-> new_round_created,
              source_chain_id |-> source_chain_id,
              pool |-> pool,
              state |-> [s2 EXCEPT !.rounds = MapInsert(@, round_id, advanced)] ]

mark_prize_claimed(st, round_id, ticket_number) ==
    IF <<round_id, ticket_number>> \in DOMAIN st.winning_tickets
    THEN [st EXCEPT !.winning_tickets[<<round_id, ticket_number>>].claimed = TRUE]
    ELSE st

get_current_ticket_price(st) ==
    IF IsSome(st.active_round) /\ Unwrap(st.active_round) \in DOMAIN st.rounds
    THEN st.rounds[Unwrap(st.active_round)].ticket_price
    ELSE OneToken

-----------------------------------------------------------------------------
(* lottery-app: SendPrize picks the chain the prize is transferred to *)

ParseChainId(s) == IF s \in ValidChainIds THEN Some(s) ELSE None

SendPrizeTarget(source_chain_id) ==
    IF IsSome(source_chain_id)
    THEN LET parsed == ParseChainId(Unwrap(source_chain_id))
         IN IF IsSome(parsed) THEN Unwrap(parsed) ELSE ThisChain
    ELSE ThisChain

-----------------------------------------------------------------------------
(* lottery-rounds: operations (contract.rs execute_operation) *)
(* An operation whose handler panics is rolled back: it is no step at all. *)

SetLotteryAppId ==
    /\ app = "lottery-rounds"
    /\ lottery' = [lottery EXCEPT !.lottery_app_id = Some("lottery-app")]
    /\ UNCHANGED <<app, prediction, response, ticket_origin, rewards_sent>>

LotteryCreateRound(ticket_price, timestamp) ==
    /\ app = "lottery-rounds"
    /\ lottery' = create_lottery_round(lottery, ticket_price, timestamp)
    /\ response' = [op |-> "CreateRound", round_id |-> lottery.round_counter + 1]
    /\ UNCHANGED <<app, prediction, ticket_origin, rewards_sent>>

LotteryCloseRound(timestamp) ==
    /\ app = "lottery-rounds"
    /\ LET r == close_lottery_round(lottery, timestamp)
       IN IF r.ok
          THEN /\ lottery' = r.state
               /\ response' = [op |-> "CloseRound", round_id |-> r.round_id]
               /\ UNCHANGED <<app, prediction, ticket_origin, rewards_sent>>
          ELSE UNCHANGED vars

PurchaseTickets(owner, amount, source_chain_id) ==
    /\ app = "lottery-rounds"
    /\ LET r == purchase_tickets(lottery, owner, amount, source_chain_id)
       IN IF r.ok
          THEN /\ lottery' = r.state
               /\ response' = [op |-> "PurchaseTickets", round_id |-> r.round_id,
                               purchase |-> r.purchase]
               /\ ticket_origin' =
                     LET assigned == {<<r.round_id, t>> :
                                        t \in r.purchase.first_ticket..r.purchase.last_ticket}
                     IN [k \in (DOMAIN ticket_origin) \cup assigned |->
                            IF k \in assigned THEN source_chain_id ELSE ticket_origin[k]]
               /\ UNCHANGED <<app, prediction, rewards_sent>>
          ELSE UNCHANGED vars

\* the state and response GenerateWinner leaves, or ok = FALSE when it panics
GenerateWinnerOutcome(st, round_id, vrf_value, timestamp) ==
    LET default_ticket_price == get_current_ticket_price(st)
        r == generate_winner(st, vrf_value, round_id, timestamp, default_ticket_price)
    IN IF ~r.ok THEN [ok |-> FALSE, err |-> r.err, state |-> st]
       ELSE IF ~IsSome(st.lottery_app_id)
       THEN [ok |-> FALSE, err |-> "Lottery app ID not set", state |-> st]
       ELSE [ ok |-> TRUE,
              state |-> IF r.prize_amount > 0
                        THEN mark_prize_claimed(r.state, r.round_id, r.ticket_number)
                        ELSE r.state,
              response |->
                 [ op |-> "GenerateWinner",
                   round_id |-> r.round_id,
                   ticket_number |-> r.ticket_number,
                   owner |-> r.owner,
                   prize_amount |-> r.prize_amount,
                   new_round_created |-> r.new_round_created,
                   source_chain_id |-> r.source_chain_id,
                   pool |-> r.pool,
                   send_prize |->
                       IF r.prize_amount > 0
                       THEN Some([ recipient |-> r.owner, amount |-> r.prize_amount,
                                   source_chain_id |-> r.source_chain_id,
                                   target_chain |-> SendPrizeTarget(r.source_chain_id) ])
                       ELSE None ] ]

\* the draw multiplies a prize pool that does not fit: a build with overflow
\* checks panics there, a build without them wraps (state.rs:24)
DrawOverflows(st, round_id) ==
    /\ round_id \in DOMAIN st.rounds
    /\ (st.rounds[round_id].prize_pool
          * Percentage(st.rounds[round_id].current_winner_pool)) > AmountMax

GenerateWinner(round_id, vrf_value, timestamp) ==
    /\ app = "lottery-rounds"
    /\ LET r == GenerateWinnerOutcome(lottery, round_id, vrf_value, timestamp)
       IN IF r.ok
          THEN \/ /\ lottery' = r.state
                  /\ response' = r.response
                  /\ UNCHANGED <<app, prediction, ticket_origin, rewards_sent>>
               \/ /\ DrawOverflows(lottery, round_id)
                  /\ UNCHANGED vars
          ELSE UNCHANGED vars

-----------------------------------------------------------------------------
(* rounds: payout arithmetic *)

\* mutant: the product is taken in the fixed-width integer
BigProduct_u128(a, b) == (a * b) % AmountModulus

\* BigUint product: no overflow (state.rs:27-31)
BigProduct(a, b) == a * b

\* mutant: the stake is added on top of the proportional share
calculate_winnings_plus_stake(bet_amount, winner_pool, total_prize_pool) ==
    IF winner_pool = 0 THEN 0
    ELSE bet_amount + (bet_amount * total_prize_pool) \div winner_pool

calculate_winnings_proportional(bet_amount, winner_pool, total_prize_pool) ==
    IF winner_pool = 0 THEN 0
    ELSE LET winnings_big == BigProduct(bet_amount, total_prize_pool) \div winner_pool
         IN IF winnings_big > AmountMax THEN AmountMax ELSE winnings_big

-----------------------------------------------------------------------------
(* rounds: state operations *)

RoundsInit ==
    [ Winza_app_id |-> None,
      leaderboard_chain_id |-> None,
      round_counter |-> 0,
      rounds |-> EmptyMap,
      active_round |-> None,
      active_bets |-> EmptyMap,
      closed_bets |-> EmptyMap,
      resolved_bets |-> EmptyMap ]

NewPredictionRound(round_id, timestamp) ==
    [ id |-> round_id,
      created_at |-> timestamp,
      closed_at |-> None,
      resolved_at |-> None,
      status |-> "Active",
      closing_price |-> None,
      resolution_price |-> None,
      up_bets |-> 0,
      down_bets |-> 0,
      up_bets_pool |-> 0,
      down_bets_pool |-> 0,
      prize_pool |-> 0,
      result |-> None ]

create_round(st, timestamp) ==
    LET round_id == st.round_counter + 1
    IN [st EXCEPT
          !.round_counter = round_id,
          !.rounds = MapInsert(@, round_id, NewPredictionRound(round_id, timestamp)),
          !.active_round = Some(round_id),
          !.active_bets = EmptyMap]

\* mutant: the sum takes the first bet only
SaturatingSum_first(keys, f, acc) ==
    IF keys = {} THEN acc
    ELSE saturating_add(acc, f[CHOOSE x \in keys : TRUE])

\* saturating sum of one side of the bets, in key order
RECURSIVE SaturatingSum(_, _, _)
SaturatingSum(keys, f, acc) ==
    IF keys = {} THEN acc
    ELSE LET k == CHOOSE x \in keys : TRUE
         IN SaturatingSum(keys \ {k}, f, saturating_add(acc, f[k]))

\* mutant: the successor is stored but the pointer stays empty
RoundsPointerAfterClose_empty(new_round_id) == None

\* active_round after a close (state.rs:214, 247)
RoundsPointerAfterClose(new_round_id) == Some(new_round_id)

\* mutant: every bet counts on both sides
HasStake_always(amount) == TRUE

\* !amount.is_zero(): the bet has a stake on the side (state.rs:186, 191)
HasStake(amount) == amount # 0

close_round(st, closing_price, timestamp) ==
    IF ~IsSome(st.active_round) THEN [ok |-> FALSE, err |-> "No active round to close", state |-> st]
    ELSE LET round_id == Unwrap(st.active_round) IN
    IF round_id \notin DOMAIN st.rounds
    THEN [ok |-> FALSE, err |-> "Active round not found", state |-> st]
    ELSE LET round == st.rounds[round_id] IN
    IF round.status # "Active"
    THEN [ok |-> FALSE, err |-> "Round is not active", state |-> st]
    ELSE LET owners == DOMAIN st.active_bets
             ups == {o \in owners : HasStake(st.active_bets[o].amount_up)}
             downs == {o \in owners : HasStake(st.active_bets[o].amount_down)}
             up_pool == SaturatingSum(ups, [o \in ups |-> st.active_bets[o].amount_up], 0)
             down_pool == SaturatingSum(downs, [o \in downs |-> st.active_bets[o].amount_down], 0)
             closed == [round EXCEPT
                          !.up_bets = Cardinality(ups),
                          !.down_bets = Cardinality(downs),
                          !.up_bets_pool = up_pool,
                          !.down_bets_pool = down_pool,
                          !.prize_pool = saturating_add(up_pool, down_pool),
                          !.status = "Closed",
                          !.closed_at = Some(timestamp),
                          !.closing_price = Some(closing_price)]
             moved == {<<round_id, o>> : o \in owners}
             new_round_id == st.round_counter + 1
         IN [ ok |-> TRUE,
              new_round_id |-> new_round_id,
              closed_round_id |-> round_id,
              state |-> [st EXCEPT
                  !.rounds = MapInsert(MapInsert(@, round_id, closed), new_round_id,
                                       NewPredictionRound(new_round_id, timestamp)),
                  !.closed_bets = [k \in (DOMAIN @) \cup moved |->
                                      IF k \in moved THEN st.active_bets[k[2]] ELSE @[k]],
                  !.active_bets = EmptyMap,
                  !.round_counter = new_round_id,
                  !.active_round = RoundsPointerAfterClose(new_round_id)] ]

place_bet(st, owner, amount, bet_prediction, source_chain_id) ==
    IF ~IsSome(st.active_round) THEN [ok |-> FALSE, err |-> "No active round", state |-> st]
    ELSE LET round_id == Unwrap(st.active_round) IN
    IF round_id \notin DOMAIN st.rounds
    THEN [ok |-> FALSE, err |-> "Active round not found", state |-> st]
    ELSE LET round == st.rounds[round_id] IN
    IF round.status # "Active"
    THEN [ok |-> FALSE, err |-> "No active round accepting bets", state |-> st]
    ELSE LET existing == owner \in DOMAIN st.active_bets
             old_bet == IF existing THEN st.active_bets[owner]
                        ELSE [ owner |-> owner, amount_up |-> 0, amount_down |-> 0,
                               claimed |-> FALSE, source_chain_id |-> source_chain_id ]
             counts_up == bet_prediction = "Up" /\ (~existing \/ old_bet.amount_up = 0)
             counts_down == bet_prediction = "Down" /\ (~existing \/ old_bet.amount_down = 0)
             bet == IF bet_prediction = "Up"
                    THEN [old_bet EXCEPT !.amount_up = saturating_add(@, amount)]
                    ELSE [old_bet EXCEPT !.amount_down = saturating_add(@, amount)]
             new_round == [round EXCEPT
                 !.up_bets = IF counts_up THEN @ + 1 ELSE @,
                 !.down_bets = IF counts_down THEN @ + 1 ELSE @,
                 !.up_bets_pool = IF bet_prediction = "Up" THEN saturating_add(@, amount) ELSE @,
                 !.down_bets_pool = IF bet_prediction = "Down" THEN saturating_add(@, amount) ELSE @,
                 !.prize_pool = saturating_add(@, amount)]
         IN [ ok |-> TRUE,
              round_id |-> round_id,
              state |-> [st EXCEPT
                  !.active_bets = MapInsert(@, owner, bet),
                  !.rounds = MapInsert(@, round_id, new_round)] ]

\* one entry of the Vec returned by resolve_round_and_distribute_rewards
ResolveResult(bet, result, winner_pool, total_prize_pool) ==
    LET winnings_up ==
            IF winner_pool # 0 /\ result = Some("Up") /\ bet.amount_up # 0
            THEN calculate_winnings_proportional(bet.amount_up, winner_pool, total_prize_pool)
            ELSE 0
        winnings_down ==
            IF winner_pool # 0 /\ result = Some("Down") /\ bet.amount_down # 0
            THEN calculate_winnings_proportional(bet.amount_down, winner_pool, total_prize_pool)
            ELSE 0
        total_wagered == saturating_add(bet.amount_up, bet.amount_down)
        total_winnings == saturating_add(winnings_up, winnings_down)
    IN [ owner |-> bet.owner,
         bet_amount |-> total_wagered,
         winnings |-> total_winnings,
         is_win |-> total_winnings > total_wagered,
         source_chain_id |-> bet.source_chain_id ]

\* the keys of a map, as the Vec the storage iteration yields
RECURSIVE KeysInOrder(_)
KeysInOrder(keys) ==
    IF keys = {} THEN << >>
    ELSE LET k == CHOOSE x \in keys : TRUE
         IN <<k>> \o KeysInOrder(keys \ {k})

\* mutant: the resolved round and the moved bets are not written back
ResolvedStorage_unsaved(st, round_id, resolved, keys) == st

\* the storage after a resolve (state.rs:296, 318-323)
ResolvedStorage(st, round_id, resolved, keys) ==
    [st EXCEPT
        !.rounds = MapInsert(@, round_id, resolved),
        !.resolved_bets = [k \in (DOMAIN @) \cup keys |->
                              IF k \in keys THEN st.closed_bets[k] ELSE @[k]],
        !.closed_bets = [k \in (DOMAIN @) \ keys |-> @[k]]]

\* mutant: equal prices count as Up
RoundResult_tie_up(resolution_price, closing_price) ==
    IF resolution_price >= closing_price THEN Some("Up") ELSE Some("Down")

\* the outcome of a round (state.rs:280-287)
RoundResult(resolution_price, closing_price) ==
    IF resolution_price > closing_price THEN Some("Up")
    ELSE IF resolution_price < closing_price THEN Some("Down")
    ELSE None

resolve_round_and_distribute_rewards(st, round_id, resolution_price, timestamp) ==
    IF round_id \notin DOMAIN st.rounds
    THEN [ok |-> FALSE, err |-> "Round not found", state |-> st]
    ELSE LET round == st.rounds[round_id] IN
    IF round.status # "Closed"
    THEN [ok |-> FALSE, err |-> "Round is not closed", state |-> st]
    ELSE IF ~IsSome(round.closing_price)
    THEN [ok |-> FALSE, err |-> "Round has no closing price", state |-> st]
    ELSE LET closing_price == Unwrap(round.closing_price)
             result == RoundResult(resolution_price, closing_price)
             resolved == [round EXCEPT
                            !.result = result,
                            !.status = "Resolved",
                            !.resolved_at = Some(timestamp),
                            !.resolution_price = Some(resolution_price)]
             keys == {k \in DOMAIN st.closed_bets : k[1] = round_id}
             bets_to_move == KeysInOrder(keys)
             winner_pool == IF result = Some("Up") THEN round.up_bets_pool
                            ELSE IF result = Some("Down") THEN round.down_bets_pool
                            ELSE 0
         IN [ ok |-> TRUE,
              round_id |-> round_id,
              results |-> [i \in 1..Len(bets_to_move) |->
                              ResolveResult(st.closed_bets[bets_to_move[i]], result,
                                            winner_pool, round.prize_pool)],
              state |-> ResolvedStorage(st, round_id, resolved, keys) ]

-----------------------------------------------------------------------------
(* rounds: operations (contract.rs execute_operation) *)

SetWinzaAppId ==
    /\ app = "rounds"
    /\ prediction' = [prediction EXCEPT !.Winza_app_id = Some("winza")]
    /\ UNCHANGED <<app, lottery, response, ticket_origin, rewards_sent>>

SetLeaderboardChainId(chain_id) ==
    /\ app = "rounds"
    /\ prediction' = [prediction EXCEPT !.leaderboard_chain_id = chain_id]
    /\ UNCHANGED <<app, lottery, response, ticket_origin, rewards_sent>>

RoundsCreateRound(timestamp) ==
    /\ app = "rounds"
    /\ prediction' = create_round(prediction, timestamp)
    /\ response' = [op |-> "CreateRound", round_id |-> prediction.round_counter + 1]
    /\ UNCHANGED <<app, lottery, ticket_origin, rewards_sent>>

RoundsCloseRound(closing_price, timestamp) ==
    /\ app = "rounds"
    /\ LET r == close_round(prediction, closing_price, timestamp)
       IN IF r.ok
          THEN /\ prediction' = r.state
               /\ response' = [op |-> "CloseRound", round_id |-> r.new_round_id,
                               closed_round_id |-> r.closed_round_id]
               /\ UNCHANGED <<app, lottery, ticket_origin, rewards_sent>>
          ELSE UNCHANGED vars

PlaceBet(owner, amount, bet_prediction, source_chain_id) ==
    /\ app = "rounds"
    /\ LET r == place_bet(prediction, owner, amount, bet_prediction, source_chain_id)
       IN IF r.ok
          THEN /\ prediction' = r.state
               /\ response' = [op |-> "PlaceBet", round_id |-> r.round_id]
               /\ UNCHANGED <<app, lottery, ticket_origin, rewards_sent>>
          ELSE UNCHANGED vars

\* the SendReward calls ResolveRound makes for a result Vec, in order
RewardCalls(results) ==
    SelectSeq([i \in 1..Len(results) |->
                  [ recipient |-> results[i].owner,
                    amount |-> results[i].winnings,
                    source_chain_id |-> results[i].source_chain_id ]],
              LAMBDA c : c.amount > 0)

CountCalls(calls, owner) ==
    Cardinality({i \in 1..Len(calls) : calls[i].recipient = owner})

\* mutant: the oldest Closed round is taken
LastClosed_first(closed_rounds) ==
    CHOOSE id \in closed_rounds : \A other \in closed_rounds : id <= other

\* max_by_key(|round| round.id) over the Closed rounds (contract.rs:139-141)
LastClosed(closed_rounds) ==
    CHOOSE id \in closed_rounds : \A other \in closed_rounds : other <= id

\* the state, response and calls ResolveRound leaves, or ok = FALSE when it panics
ResolveRoundOutcome(st, resolution_price, timestamp) ==
    LET closed_rounds == {id \in DOMAIN st.rounds :
                             /\ st.rounds[id].status = "Closed"
                             /\ st.rounds[id].resolved_at = None}
    IN IF closed_rounds = {}
       THEN [ok |-> FALSE, err |-> "No closed round to resolve", state |-> st]
       ELSE LET round_id == LastClosed(closed_rounds)
                r == resolve_round_and_distribute_rewards(st, round_id, resolution_price, timestamp)
            IN IF ~r.ok THEN [ok |-> FALSE, err |-> r.err, state |-> st]
               ELSE IF ~IsSome(st.Winza_app_id)
               THEN [ok |-> FALSE, err |-> "Winzareal app ID not set", state |-> st]
               ELSE IF /\ Len(r.results) > 0
                       /\ IsSome(st.leaderboard_chain_id)
                       /\ ~IsSome(ParseChainId(Unwrap(st.leaderboard_chain_id)))
               THEN [ok |-> FALSE, err |-> "Invalid leaderboard_chain_id format", state |-> st]
               ELSE [ ok |-> TRUE,
                      state |-> r.state,
                      response |-> [ op |-> "ResolveRound",
                                     round_id |-> round_id,
                                     resolution_price |-> resolution_price,
                                     results |-> r.results,
                                     send_reward |-> RewardCalls(r.results) ] ]

ResolveRound(resolution_price, timestamp) ==
    /\ app = "rounds"
    /\ \E r \in {ResolveRoundOutcome(prediction, resolution_price, timestamp)} :
          IF r.ok
          THEN LET calls == r.response.send_reward
                   paid == {<<r.response.round_id, calls[i].recipient>> : i \in 1..Len(calls)}
               IN /\ prediction' = r.state
                  /\ response' = r.response
                  /\ rewards_sent' =
                        [k \in (DOMAIN rewards_sent) \cup paid |->
                            (IF k \in DOMAIN rewards_sent THEN rewards_sent[k] ELSE 0)
                            + (IF k \in paid THEN CountCalls(calls, k[2]) ELSE 0)]
                  /\ UNCHANGED <<app, lottery, ticket_origin>>
          ELSE UNCHANGED vars

-----------------------------------------------------------------------------
(* Specification *)

Apps == {"lottery-rounds", "rounds"}

Init ==
    /\ app \in Apps
    /\ lottery = LotteryInit
    /\ prediction = RoundsInit
    /\ response = [op |-> "Init"]
    /\ ticket_origin = EmptyMap
    /\ rewards_sent = EmptyMap

NoActiveRound(st) ==
    ~IsSome(st.active_round) \/ Unwrap(st.active_round) \notin DOMAIN st.rounds

TicketsStored(st) ==
    SumOver(DOMAIN st.rounds, [id \in DOMAIN st.rounds |-> st.rounds[id].total_tickets_sold])

StakeStored(st) ==
    SumOver(DOMAIN st.rounds, [id \in DOMAIN st.rounds |-> st.rounds[id].prize_pool])

BetCount(st) ==
    SumOver(DOMAIN st.rounds,
            [id \in DOMAIN st.rounds |-> st.rounds[id].up_bets + st.rounds[id].down_bets])

\* tickets a purchase of `amount` would add to the active round
TicketsBought(st, amount) ==
    LET r == purchase_tickets(st, "o1", amount, None)
    IN IF r.ok THEN r.purchase.total_tickets ELSE 0

\* a draw that fills tier 4 also creates a round
DrawCreatesRound(st, round_id) ==
    /\ round_id \in DOMAIN st.rounds
    /\ st.rounds[round_id].current_winner_pool = "Pool4"
    /\ st.rounds[round_id].pool4_winners_drawn + 1 >= st.rounds[round_id].pool4_count

NextLottery ==
    \/ SetLotteryAppId
    \/ \E p \in TicketPrices, ts \in Timestamps :
          lottery.round_counter < MaxLotteryRounds /\ LotteryCreateRound(p, ts)
    \/ \E ts \in Timestamps : LotteryCloseRound(ts)
    \/ \E o \in Owners, a \in PurchaseAmounts, c \in SourceChains :
          /\ TicketsStored(lottery) + TicketsBought(lottery, a) <= MaxTickets
          /\ PurchaseTickets(o, a, c)
    \/ \E id \in 1..MaxLotteryRounds, seed \in Seeds, ts \in Timestamps :
          /\ DrawCreatesRound(lottery, id) => lottery.round_counter < MaxLotteryRounds
          /\ GenerateWinner(id, seed, ts)

NextRounds ==
    \/ SetWinzaAppId
    \/ \E c \in LeaderboardChains : SetLeaderboardChainId(c)
    \/ \E ts \in Timestamps :
          prediction.round_counter < MaxPredictionRounds /\ RoundsCreateRound(ts)
    \/ \E p \in ClosingPrices, ts \in Timestamps :
          prediction.round_counter < MaxPredictionRounds /\ RoundsCloseRound(p, ts)
    \/ \E b \in Bettors, a \in BetAmounts, d \in {"Up", "Down"} :
          /\ StakeStored(prediction) + a <= MaxStake
          /\ BetCount(prediction) < MaxBetCount
          /\ PlaceBet(b[1], a, d, b[2])
    \/ \E p \in ResolutionPrices, ts \in Timestamps : ResolveRound(p, ts)

Next == NextLottery \/ NextRounds

Spec == Init /\ [][Next]_vars

-----------------------------------------------------------------------------
(* The lottery with rounds sold in bulk: enough tickets for a tier quota of  *)
(* two, and a prize pool whose product with a tier percentage does not fit   *)
(* the Amount type.                                                          *)

\* tickets the active round would count for a purchase of `amount`
BulkTickets(st, amount) ==
    IF NoActiveRound(st) THEN 0
    ELSE TicketCount(amount, st.rounds[Unwrap(st.active_round)].ticket_price)

NextBulk ==
    \/ SetLotteryAppId
    \/ \E p \in BulkPrices, ts \in Timestamps :
          lottery.round_counter < MaxLotteryRounds /\ LotteryCreateRound(p, ts)
    \/ \E ts \in Timestamps : LotteryCloseRound(ts)
    \/ \E o \in Owners, a \in BulkAmounts :
          /\ BulkTickets(lottery, a) >= 4
          /\ TicketsStored(lottery) + BulkTickets(lottery, a) <= MaxBulkTickets
          /\ PurchaseTickets(o, a, None)
    \/ \E id \in 1..MaxLotteryRounds, seed \in Seeds, ts \in Timestamps :
          /\ DrawCreatesRound(lottery, id) => lottery.round_counter < MaxLotteryRounds
          /\ GenerateWinner(id, seed, ts)

InitLottery == Init /\ app = "lottery-rounds"

SpecBulk == InitLottery /\ [][NextBulk]_vars

-----------------------------------------------------------------------------
(* The lottery with a history longer than MAX_HISTORY_ROUNDS: creating round *)
(* N > 5 purges round N - 5.                                                 *)

NextPurge ==
    \/ SetLotteryAppId
    \/ \E p \in TicketPrices, ts \in Timestamps :
          lottery.round_counter < MaxPurgeRounds /\ LotteryCreateRound(p, ts)
    \/ \E ts \in Timestamps : LotteryCloseRound(ts)
    \/ \E o \in Owners, a \in PurgeAmounts :
          /\ BulkTickets(lottery, a) >= 1
          /\ TicketsStored(lottery) + BulkTickets(lottery, a) <= MaxPurgeTickets
          /\ PurchaseTickets(o, a, None)
    \/ \E id \in 1..MaxPurgeRounds, seed \in PurgeSeeds, ts \in Timestamps :
          /\ DrawCreatesRound(lottery, id) => lottery.round_counter < MaxPurgeRounds
          /\ GenerateWinner(id, seed, ts)

SpecPurge == InitLottery /\ [][NextPurge]_vars

\* the prediction application with bets of amount zero among the bets
BetAmountsWithZero == BetAmounts \cup {0}

NextBets ==
    \/ \E ts \in Timestamps :
          prediction.round_counter < MaxPredictionRounds /\ RoundsCreateRound(ts)
    \/ \E p \in ClosingPrices, ts \in Timestamps :
          prediction.round_counter < MaxPredictionRounds /\ RoundsCloseRound(p, ts)
    \/ \E b \in Bettors, a \in BetAmountsWithZero, d \in {"Up", "Down"} :
          /\ StakeStored(prediction) + a <= MaxStake
          /\ BetCount(prediction) < MaxBetCount
          /\ PlaceBet(b[1], a, d, b[2])

InitRounds == Init /\ app = "rounds"

SpecBets == InitRounds /\ [][NextBets]_vars

\* the prediction application with ResolveRound called again and again
ResolveCall == \E p \in ResolutionPrices, ts \in Timestamps : ResolveRound(p, ts)

\* the one bettor of the histories in which resolves are followed
ResolveBettors == {<<"o1", None>>}

\* the side that bettor takes
ResolveSides == {"Up"}

\* rounds are created, bet on once, closed and resolved
NextResolve ==
    \/ SetWinzaAppId
    \/ \E c \in LeaderboardChains : SetLeaderboardChainId(c)
    \/ \E ts \in Timestamps :
          prediction.round_counter < MaxPredictionRounds /\ RoundsCreateRound(ts)
    \/ \E p \in ClosingPrices, ts \in Timestamps :
          prediction.round_counter < MaxPredictionRounds /\ RoundsCloseRound(p, ts)
    \/ \E b \in ResolveBettors, a \in BetAmounts, d \in ResolveSides :
          /\ b[1] \notin DOMAIN prediction.active_bets
          /\ PlaceBet(b[1], a, d, b[2])
    \/ ResolveCall

SpecResolve == InitRounds /\ [][NextResolve]_vars /\ WF_vars(ResolveCall)

\* both applications, the lottery with its long history
NextHistory == NextPurge \/ NextRounds

SpecHistory == Init /\ [][NextHistory]_vars

-----------------------------------------------------------------------------
(* lottery-app in front of lottery-rounds: token transfers, claims and the   *)
(* cross-chain TransferForTickets message, each of which may register a      *)
(* ticket purchase by calling PurchaseTickets of lottery-rounds.  The call   *)
(* to the token application is taken to succeed.  A callee that panics       *)
(* aborts the whole transaction of the caller.                               *)

\* the tickets registered by call_application(PurchaseTickets), or the abort
RegisterTickets(st, owner, amount, source_chain_id) ==
    LET r == purchase_tickets(st, owner, amount, source_chain_id)
    IN IF r.ok
       THEN [ok |-> TRUE, state |-> r.state, round_id |-> r.round_id, purchase |-> r.purchase]
       ELSE [ok |-> FALSE, err |-> r.err, state |-> st]

\* LotteryAppOperation::Transfer (lottery-app contract.rs:51-119)
TransferOutcome(st, owner, amount, target_owner, target_is_local, purchase_flag) ==
    IF purchase_flag /\ target_is_local
    THEN LET r == RegisterTickets(st, target_owner, amount, None)
         IN IF r.ok
            THEN [ ok |-> TRUE, state |-> r.state,
                   response |-> [ op |-> "Transfer", owner |-> owner, amount |-> amount,
                                  round_id |-> r.round_id, purchase |-> Some(r.purchase),
                                  message |-> None ] ]
            ELSE [ok |-> FALSE, err |-> r.err, state |-> st]
    ELSE [ ok |-> TRUE, state |-> st,
           response |-> [ op |-> "Transfer", owner |-> owner, amount |-> amount,
                          round_id |-> 0, purchase |-> None,
                          message |-> IF purchase_flag
                                      THEN Some([ owner |-> target_owner, amount |-> amount,
                                                  source_chain_id |-> ThisChain,
                                                  source_owner |-> owner ])
                                      ELSE None ] ]

\* LotteryAppOperation::Claim (lottery-app contract.rs:121-161)
ClaimOutcome(st, amount, target_owner, purchase_flag) ==
    IF purchase_flag
    THEN LET r == RegisterTickets(st, target_owner, amount, None)
         IN IF r.ok
            THEN [ ok |-> TRUE, state |-> r.state,
                   response |-> [ op |-> "Claim", owner |-> target_owner, amount |-> amount,
                                  round_id |-> r.round_id, purchase |-> Some(r.purchase) ] ]
            ELSE [ok |-> FALSE, err |-> r.err, state |-> st]
    ELSE [ ok |-> TRUE, state |-> st,
           response |-> [ op |-> "Claim", owner |-> target_owner, amount |-> amount,
                          round_id |-> 0, purchase |-> None ] ]

\* Message::TransferForTickets (lottery-app contract.rs:202-230)
TransferForTicketsOutcome(st, source_owner, amount, source_chain_id) ==
    LET r == RegisterTickets(st, source_owner, amount, Some(source_chain_id))
    IN IF r.ok
       THEN [ ok |-> TRUE, state |-> r.state,
              response |-> [ op |-> "TransferForTickets", owner |-> source_owner,
                             amount |-> amount, round_id |-> r.round_id,
                             purchase |-> Some(r.purchase) ] ]
       ELSE [ok |-> FALSE, err |-> r.err, state |-> st]

\* the origins of the tickets a purchase assigned, added to the history
OriginsAfter(round_id, purchase, source_chain_id) ==
    LET assigned == {<<round_id, t>> : t \in purchase.first_ticket..purchase.last_ticket}
    IN [k \in (DOMAIN ticket_origin) \cup assigned |->
           IF k \in assigned THEN source_chain_id ELSE ticket_origin[k]]

\* the step of a lottery-app handler with outcome r
AppStep(r, source_chain_id) ==
    IF r.ok
    THEN /\ lottery' = r.state
         /\ response' = r.response
         /\ ticket_origin' =
               IF IsSome(r.response.purchase)
               THEN OriginsAfter(r.response.round_id, Unwrap(r.response.purchase),
                                 source_chain_id)
               ELSE ticket_origin
         /\ UNCHANGED <<app, prediction, rewards_sent>>
    ELSE UNCHANGED vars

AppTransfer(owner, amount, target_owner, target_is_local, purchase_flag) ==
    /\ app = "lottery-rounds"
    /\ AppStep(TransferOutcome(lottery, owner, amount, target_owner, target_is_local,
                               purchase_flag), None)

AppClaim(amount, target_owner, purchase_flag) ==
    /\ app = "lottery-rounds"
    /\ AppStep(ClaimOutcome(lottery, amount, target_owner, purchase_flag), None)

AppTransferForTickets(source_owner, amount, source_chain_id) ==
    /\ app = "lottery-rounds"
    /\ AppStep(TransferForTicketsOutcome(lottery, source_owner, amount, source_chain_id),
               Some(source_chain_id))

\* chains a TransferForTickets message arrives from
RemoteChains == {"chainA"}

NextApp ==
    \/ \E p \in TicketPrices, ts \in Timestamps :
          lottery.round_counter < MaxLotteryRounds /\ LotteryCreateRound(p, ts)
    \/ \E ts \in Timestamps : LotteryCloseRound(ts)
    \/ \E o \in Owners, a \in PurchaseAmounts, t \in Owners, l \in BOOLEAN, f \in BOOLEAN :
          /\ TicketsStored(lottery) + TicketsBought(lottery, a) <= MaxTickets
          /\ AppTransfer(o, a, t, l, f)
    \/ \E a \in PurchaseAmounts, t \in Owners, f \in BOOLEAN :
          /\ TicketsStored(lottery) + TicketsBought(lottery, a) <= MaxTickets
          /\ AppClaim(a, t, f)
    \/ \E o \in Owners, a \in PurchaseAmounts, c \in RemoteChains :
          /\ TicketsStored(lottery) + TicketsBought(lottery, a) <= MaxTickets
          /\ AppTransferForTickets(o, a, c)

SpecApp == InitLottery /\ [][NextApp]_vars

-----------------------------------------------------------------------------
(* The payout arithmetic on its own: each step applies one of the functions  *)
(* to inputs drawn from the whole range of the Amount type and records the   *)
(* call in `response`.                                                       *)

\* prize pools up to the largest Amount, around the largest whose product
\* with a tier percentage fits
CalcPools == {0, 8, 28, 1000, AmountMax \div 30, AmountMax \div 30 + 1, AmountMax}

\* prize_u128 * percentage does not fit the u128 (state.rs:24)
PrizeProductOverflows(prize_pool, pool) == prize_pool * Percentage(pool) > AmountMax

CalculateWinnings(bet_amount, winner_pool, total_prize_pool) ==
    /\ app = "rounds"
    /\ response' = [ op |-> "calculate_winnings_proportional",
                     bet_amount |-> bet_amount,
                     winner_pool |-> winner_pool,
                     total_prize_pool |-> total_prize_pool,
                     result |-> calculate_winnings_proportional(bet_amount, winner_pool,
                                                                total_prize_pool) ]
    /\ UNCHANGED <<app, lottery, prediction, ticket_origin, rewards_sent>>

\* overflow_checks is the build's choice: the product panics with the checks
\* on and wraps with the checks off
CalculatePrizeForPool(prize_pool, pool, overflow_checks) ==
    /\ app = "lottery-rounds"
    /\ LET panicked == overflow_checks /\ PrizeProductOverflows(prize_pool, pool)
       IN response' = [ op |-> "calculate_prize_for_pool",
                        prize_pool |-> prize_pool,
                        pool |-> pool,
                        panicked |-> panicked,
                        result |-> IF panicked THEN None
                                   ELSE Some(calculate_prize_for_pool(prize_pool, pool)) ]
    /\ UNCHANGED <<app, lottery, prediction, ticket_origin, rewards_sent>>

CalculatePrizePerWinner(prize_pool, pool, winners_in_pool, overflow_checks) ==
    /\ app = "lottery-rounds"
    /\ LET panicked == /\ winners_in_pool # 0
                       /\ overflow_checks
                       /\ PrizeProductOverflows(prize_pool, pool)
       IN response' = [ op |-> "calculate_prize_per_winner",
                        prize_pool |-> prize_pool,
                        pool |-> pool,
                        winners_in_pool |-> winners_in_pool,
                        panicked |-> panicked,
                        result |-> IF panicked THEN None
                                   ELSE Some(calculate_prize_per_winner(prize_pool, pool,
                                                                        winners_in_pool)) ]
    /\ UNCHANGED <<app, lottery, prediction, ticket_origin, rewards_sent>>

NextCalc ==
    \/ \E s \in CalcStakes, w \in CalcStakes, t \in CalcStakes : CalculateWinnings(s, w, t)
    \/ \E a \in CalcPools, k \in WinnerPools, c \in BOOLEAN : CalculatePrizeForPool(a, k, c)
    \/ \E a \in CalcPools, k \in WinnerPools, n \in CalcQuotas, c \in BOOLEAN :
          CalculatePrizePerWinner(a, k, n, c)

SpecCalc == Init /\ [][NextCalc]_vars

-----------------------------------------------------------------------------
(* Properties *)

LotteryRoundIds == 1..MaxLotteryRounds

WinnersOf(st, round_id) == {w \in DOMAIN st.winning_tickets : w[1] = round_id}

ActiveRounds(st) == {id \in DOMAIN st.rounds : st.rounds[id].status = "Active"}

\* C1: every successful generate_winner selects a ticket that is not yet a key
\* of winning_tickets for the round, so no ticket wins twice in a round.
C1_NoDoubleWin ==
    \A id \in LotteryRoundIds, seed \in Seeds, ts \in Timestamps :
        LET r == GenerateWinnerOutcome(lottery, id, seed, ts)
        IN r.ok =>
             /\ <<id, r.response.ticket_number>> \notin DOMAIN lottery.winning_tickets
             /\ <<id, r.response.ticket_number>> \in DOMAIN r.state.winning_tickets
             /\ \A w \in WinnersOf(lottery, id) :
                   r.state.winning_tickets[w].owner = lottery.winning_tickets[w].owner

\* a draw has happened, and some seed's first candidate is already a winner
\* of a round that still has a draw to make
C1_Witness ==
    /\ response.op = "GenerateWinner"
    /\ \E id \in LotteryRoundIds, seed \in Seeds, ts \in Timestamps :
          /\ id \in DOMAIN lottery.rounds
          /\ GenerateWinnerOutcome(lottery, id, seed, ts).ok
          /\ (seed % lottery.rounds[id].total_tickets_sold) + 1 \in existing_winners(lottery, id)

\* C2: no (round, owner) pair is ever sent more than one reward.
C2_PaidAtMostOnce ==
    \A k \in DOMAIN rewards_sent : rewards_sent[k] <= 1

\* an owner of one round was paid and a later ResolveRound resolved another round
C2_Witness ==
    /\ response.op = "ResolveRound"
    /\ \E k \in DOMAIN rewards_sent :
          /\ rewards_sent[k] = 1
          /\ k[1] # response.round_id
          /\ prediction.rounds[k[1]].status = "Resolved"

\* C3: the prizes recorded for a lottery round never add up to more than
\* the round's prize_pool.
C3_PrizesWithinPool ==
    \A id \in DOMAIN lottery.rounds :
        SumOver(WinnersOf(lottery, id),
                [w \in WinnersOf(lottery, id) |-> lottery.winning_tickets[w].prize_amount])
            <= lottery.rounds[id].prize_pool

\* a Complete round whose four prizes are all positive and leave a remainder
C3_Witness ==
    \E id \in DOMAIN lottery.rounds :
        /\ lottery.rounds[id].status = "Complete"
        /\ Cardinality(WinnersOf(lottery, id)) = 4
        /\ \A w \in WinnersOf(lottery, id) : lottery.winning_tickets[w].prize_amount > 0
        /\ SumOver(WinnersOf(lottery, id),
                   [w \in WinnersOf(lottery, id) |-> lottery.winning_tickets[w].prize_amount])
              < lottery.rounds[id].prize_pool

SumWinnings(results) ==
    SumOver(1..Len(results), [i \in 1..Len(results) |-> results[i].winnings])

Tiers == <<"Pool1", "Pool2", "Pool3", "Pool4">>

TierIndex(pool) ==
    CASE pool = "Pool1" -> 1
      [] pool = "Pool2" -> 2
      [] pool = "Pool3" -> 3
      [] pool = "Pool4" -> 4
      [] OTHER -> 5

\* the cursor of a round is consistent with its drawn counters
TierOrder(round) ==
    LET c == TierIndex(round.current_winner_pool)
    IN /\ \A k \in 1..4 : PoolDrawn(round, Tiers[k]) <= PoolCount(round, Tiers[k])
       /\ \A k \in 1..4 : k < c => PoolDrawn(round, Tiers[k]) = PoolCount(round, Tiers[k])
       /\ \A k \in 1..4 : k > c => PoolDrawn(round, Tiers[k]) = 0
       /\ (c <= 4 /\ round.status = "Closed") =>
             PoolDrawn(round, Tiers[c]) < PoolCount(round, Tiers[c])

\* a step moves the cursor of a round by at most one tier, and a draw counts
\* for the tier the cursor was on
TierStep ==
    \A id \in (DOMAIN lottery.rounds) \cap (DOMAIN lottery'.rounds) :
        LET old == lottery.rounds[id]
            new == lottery'.rounds[id]
        IN /\ TierIndex(new.current_winner_pool) \in
                 {TierIndex(old.current_winner_pool), TierIndex(old.current_winner_pool) + 1}
           /\ \A k \in 1..4 :
                 PoolDrawn(new, Tiers[k]) # PoolDrawn(old, Tiers[k]) =>
                    /\ Tiers[k] = old.current_winner_pool
                    /\ PoolDrawn(new, Tiers[k]) = PoolDrawn(old, Tiers[k]) + 1
                    /\ PoolDrawn(old, Tiers[k]) < PoolCount(old, Tiers[k])

\* C5: the tier cursor moves Pool1 -> Pool2 -> Pool3 -> Pool4 -> Complete one
\* step at a time; a tier is drawn only when all lower tiers are full, and no
\* tier's drawn counter exceeds its quota.
C5_TierMonotone ==
    /\ [](\A id \in DOMAIN lottery.rounds : TierOrder(lottery.rounds[id]))
    /\ [][TierStep]_vars

\* a round went through all four tiers
C5_Witness ==
    \E id \in DOMAIN lottery.rounds :
        /\ lottery.rounds[id].current_winner_pool = "Complete"
        /\ \A k \in 1..4 : PoolDrawn(lottery.rounds[id], Tiers[k]) = 1

\* C6: each application stores at most one round with status Active.
C6_OneActiveRound ==
    /\ Cardinality(ActiveRounds(lottery)) <= 1
    /\ Cardinality(ActiveRounds(prediction)) <= 1

AnyPurchaseAccepted(st) ==
    \E o \in Owners, a \in PurchaseAmounts, c \in SourceChains :
        purchase_tickets(st, o, a, c).ok

TicketsHeld(st, round_id, owner) ==
    {k \in DOMAIN st.ticket_to_owner : k[1] = round_id /\ st.ticket_to_owner[k] = owner}

RecordsOf(st, round_id) == {k \in DOMAIN st.ticket_purchases : k[1] = round_id}

\* C9: the stake record of a (round, owner) pair reflects all purchases of
\* the owner in the round: the lottery record counts and covers every ticket
\* the owner holds and the records' amounts add up to the pool; a bet adds
\* its amount to the owner's side.
C9_StakesMerge ==
    /\ \A k \in DOMAIN lottery.ticket_purchases :
          LET rec == lottery.ticket_purchases[k]
              held == TicketsHeld(lottery, k[1], k[2])
          IN k[1] \in DOMAIN lottery.rounds =>
               /\ rec.total_tickets = Cardinality(held)
               /\ \A t \in held : rec.first_ticket <= t[2] /\ t[2] <= rec.last_ticket
    /\ \A id \in DOMAIN lottery.rounds :
          SumOver(RecordsOf(lottery, id),
                  [k \in RecordsOf(lottery, id) |-> lottery.ticket_purchases[k].amount_paid])
             = lottery.rounds[id].prize_pool
    /\ \A b \in Bettors, a \in BetAmounts, d \in {"Up", "Down"} :
          LET r == place_bet(prediction, b[1], a, d, b[2])
              old_up == IF b[1] \in DOMAIN prediction.active_bets
                        THEN prediction.active_bets[b[1]].amount_up ELSE 0
              old_down == IF b[1] \in DOMAIN prediction.active_bets
                          THEN prediction.active_bets[b[1]].amount_down ELSE 0
          IN r.ok =>
               /\ r.state.active_bets[b[1]].amount_up = old_up + (IF d = "Up" THEN a ELSE 0)
               /\ r.state.active_bets[b[1]].amount_down = old_down + (IF d = "Down" THEN a ELSE 0)

ChainOf(source_chain_id) ==
    IF IsSome(source_chain_id) THEN Unwrap(source_chain_id) ELSE ThisChain

\* C10: the origin stored on a winner record, and the chain its prize is
\* sent to, are those of the purchase that assigned the winning ticket.
C10_PrizeFollowsOrigin ==
    /\ \A w \in DOMAIN lottery.winning_tickets :
          lottery.winning_tickets[w].source_chain_id = ticket_origin[w]
    /\ (response.op = "GenerateWinner" /\ IsSome(response.send_prize)) =>
          Unwrap(response.send_prize).target_chain
             = ChainOf(ticket_origin[<<response.round_id, response.ticket_number>>])

\* C11: when an operation has issued a transfer for a winner, the winner's
\* record is flagged claimed by the end of that operation: the winning ticket
\* after a GenerateWinner that sent a prize, the resolved bet of every owner
\* who was sent a reward after a ResolveRound.
C11_ClaimedAfterTransfer ==
    /\ (response.op = "GenerateWinner" /\ IsSome(response.send_prize)) =>
          /\ <<response.round_id, response.ticket_number>> \in DOMAIN lottery.winning_tickets
          /\ lottery.winning_tickets[<<response.round_id, response.ticket_number>>].claimed
    /\ response.op = "ResolveRound" =>
          \A i \in 1..Len(response.send_reward) :
              LET k == <<response.round_id, response.send_reward[i].recipient>>
              IN k \in DOMAIN prediction.resolved_bets /\ prediction.resolved_bets[k].claimed

\* C12: the draw that fills tier 4 leaves the drawn round Complete and, in the
\* same operation, creates a new Active round whose ticket price is the
\* ticket price of the round that just completed.
C12_SuccessorKeepsPrice ==
    (response.op = "GenerateWinner" /\ response.new_round_created) =>
        /\ lottery.rounds[response.round_id].status = "Complete"
        /\ lottery.active_round = Some(lottery.round_counter)
        /\ lottery.rounds[lottery.round_counter].status = "Active"
        /\ lottery.rounds[lottery.round_counter].ticket_price
              = lottery.rounds[response.round_id].ticket_price

\* the postcondition of a successful purchase of amount a by owner o
PurchasePost(st, r, o, a) ==
    LET old == st.rounds[r.round_id]
        new == r.state.rounds[r.round_id]
        count == a \div old.ticket_price
    IN /\ count >= 1
       /\ r.purchase.total_tickets = count
       /\ r.purchase.first_ticket = old.next_ticket_number
       /\ r.purchase.last_ticket = old.next_ticket_number + count - 1
       /\ \A t \in old.next_ticket_number..(old.next_ticket_number + count - 1) :
             /\ <<r.round_id, t>> \in DOMAIN r.state.ticket_to_owner
             /\ r.state.ticket_to_owner[<<r.round_id, t>>] = o
       /\ new.next_ticket_number = old.next_ticket_number + count
       /\ new.total_tickets_sold = old.total_tickets_sold + count
       /\ new.prize_pool = old.prize_pool + a

\* C13: a successful purchase of amount a at ticket price p assigns exactly
\* floor(a / p) >= 1 tickets, numbered from next_ticket_number on, advances
\* next_ticket_number and total_tickets_sold by that count and adds the full
\* amount a to prize_pool, for every amount.
C13_PurchaseAssignsTickets ==
    \A o \in Owners, a \in PurchaseAmountsWide, c \in SourceChains :
        LET r == purchase_tickets(lottery, o, a, c)
        IN r.ok => PurchasePost(lottery, r, o, a)

\* the same for the amounts whose ticket count fits the ticket counter
SmallPurchasesAssignTickets ==
    \A o \in Owners, a \in PurchaseAmounts, c \in SourceChains :
        LET r == purchase_tickets(lottery, o, a, c)
        IN r.ok => PurchasePost(lottery, r, o, a)

\* the round a purchase would go to is missing or not Active
NoRoundForPurchase(st) ==
    \/ ~IsSome(st.active_round)
    \/ Unwrap(st.active_round) \notin DOMAIN st.rounds
    \/ st.rounds[Unwrap(st.active_round)].status # "Active"

\* what purchase_tickets returns for a rejected purchase
PurchaseRejections ==
    \A o \in Owners, a \in PurchaseAmountsWide, c \in SourceChains :
        LET r == purchase_tickets(lottery, o, a, c)
        IN /\ NoRoundForPurchase(lottery) => ~r.ok
           /\ (~NoRoundForPurchase(lottery)
                 /\ a < lottery.rounds[Unwrap(lottery.active_round)].ticket_price) => ~r.ok
           /\ ~r.ok => r.state = lottery

\* a PurchaseTickets operation whose purchase is rejected changes nothing
RejectedPurchaseStep ==
    \A o \in Owners, a \in PurchaseAmountsWide, c \in SourceChains :
        (~purchase_tickets(lottery, o, a, c).ok /\ PurchaseTickets(o, a, c)) => UNCHANGED vars

\* C14: a purchase fails when there is no active round or the round pointed
\* to is not Active, and when the amount is below the ticket price; a failed
\* purchase leaves every round, purchase record and ticket entry as it was.
C14_RejectedPurchase ==
    /\ []PurchaseRejections
    /\ [][RejectedPurchaseStep]_vars

\* a round is open and has sold tickets, and the amount below its price is
\* rejected while a larger one is accepted
C14_Witness ==
    /\ response.op = "PurchaseTickets"
    /\ ~NoRoundForPurchase(lottery)
    /\ ~purchase_tickets(lottery, "o1", 1, None).ok
    /\ purchase_tickets(lottery, "o1", 4, None).ok

\* what close_lottery_round returns when it rejects a close, and what the
\* round can still do afterwards
CloseRejections ==
    \A ts \in Timestamps :
        LET r == close_lottery_round(lottery, ts)
        IN /\ ~IsSome(lottery.active_round) => ~r.ok
           /\ ~r.ok => r.state = lottery
           /\ (~NoRoundForPurchase(lottery)
                 /\ lottery.rounds[Unwrap(lottery.active_round)].total_tickets_sold < 4) =>
                 LET id == Unwrap(lottery.active_round)
                 IN /\ ~r.ok
                    /\ r.state.rounds[id].status = "Active"
                    /\ \A k \in 1..4 : PoolCount(r.state.rounds[id], Tiers[k]) = 0
                    /\ \A o \in Owners, a \in PurchaseAmounts, c \in SourceChains :
                          LET p == purchase_tickets(r.state, o, a, c)
                          IN /\ a >= r.state.rounds[id].ticket_price => p.ok
                             /\ (p.ok /\ p.state.rounds[id].total_tickets_sold >= 4) =>
                                   LET later == close_lottery_round(p.state, ts)
                                   IN /\ later.ok
                                      /\ later.state.rounds[id].status = "Closed"

\* a CloseRound operation whose close is rejected changes nothing
RejectedCloseStep ==
    \A ts \in Timestamps :
        (~close_lottery_round(lottery, ts).ok /\ LotteryCloseRound(ts)) => UNCHANGED vars

\* C15: CloseRound fails when no round is active and when the active round has
\* sold fewer than 4 tickets; the round is then still Active with the counts
\* and quotas it had, accepts purchases, and closes once it has 4 tickets.
C15_RejectedClose ==
    /\ []CloseRejections
    /\ [][RejectedCloseStep]_vars

\* a round with 2 tickets cannot be closed, and can after one more purchase
C15_Witness ==
    /\ response.op = "PurchaseTickets"
    /\ ~NoRoundForPurchase(lottery)
    /\ lottery.rounds[Unwrap(lottery.active_round)].total_tickets_sold = 2
    /\ ~close_lottery_round(lottery, 1).ok
    /\ close_lottery_round(purchase_tickets(lottery, "o2", 4, None).state, 1).ok

\* C16: a resolve sets the result to Up exactly when the resolution price is
\* above the closing price, to Down exactly when it is below, and to no
\* outcome when they are equal; with equal prices the operation succeeds
\* whenever it would for another price, sends no reward and leaves the round
\* Resolved.
C16_ResolveOutcome ==
    /\ \A id \in DOMAIN prediction.rounds :
          LET round == prediction.rounds[id]
          IN round.status = "Resolved" =>
               /\ round.result = Some("Up") <=>
                     Unwrap(round.resolution_price) > Unwrap(round.closing_price)
               /\ round.result = Some("Down") <=>
                     Unwrap(round.resolution_price) < Unwrap(round.closing_price)
               /\ round.result = None <=>
                     Unwrap(round.resolution_price) = Unwrap(round.closing_price)
    /\ \A p \in ResolutionPrices, q \in ResolutionPrices, ts \in Timestamps :
          ResolveRoundOutcome(prediction, p, ts).ok = ResolveRoundOutcome(prediction, q, ts).ok
    /\ \A p \in ResolutionPrices, ts \in Timestamps :
          LET r == ResolveRoundOutcome(prediction, p, ts)
          IN r.ok =>
               LET id == r.response.round_id
                   closing == Unwrap(prediction.rounds[id].closing_price)
               IN /\ r.state.rounds[id].status = "Resolved"
                  /\ r.state.rounds[id].result =
                        (IF p > closing THEN Some("Up")
                         ELSE IF p < closing THEN Some("Down") ELSE None)
                  /\ p = closing =>
                        /\ r.response.send_reward = << >>
                        /\ \A i \in 1..Len(r.response.results) :
                              r.response.results[i].winnings = 0

\* a round with bets on both sides was resolved at its closing price
C16_Witness ==
    /\ response.op = "ResolveRound"
    /\ prediction.rounds[response.round_id].result = None
    /\ prediction.rounds[response.round_id].status = "Resolved"
    /\ prediction.rounds[response.round_id].up_bets_pool > 0
    /\ prediction.rounds[response.round_id].down_bets_pool > 0
    /\ Len(response.results) = 2
    /\ response.send_reward = << >>

ExactPrizePerWinner(prize_pool, pool, winners_in_pool) ==
    ((prize_pool * Percentage(pool)) \div 100) \div winners_in_pool

\* the prizes recorded for a round are, tier by tier, as many as the tier
\* has drawn and of the amount `prize` gives for the tier
PrizesByTier(st, id, prize(_, _, _)) ==
    LET round == st.rounds[id]
        amount(k) == prize(round.prize_pool, Tiers[k], PoolCount(round, Tiers[k]))
        paid(v) == {w \in WinnersOf(st, id) : st.winning_tickets[w].prize_amount = v}
        drawn(v) == SumOver({k \in 1..4 : PoolCount(round, Tiers[k]) > 0 /\ amount(k) = v},
                            [k \in 1..4 |-> PoolDrawn(round, Tiers[k])])
    IN /\ \A w \in WinnersOf(st, id) :
             \E k \in 1..4 : /\ PoolDrawn(round, Tiers[k]) > 0
                             /\ st.winning_tickets[w].prize_amount = amount(k)
       /\ \A k \in 1..4 :
             PoolDrawn(round, Tiers[k]) > 0 =>
                 Cardinality(paid(amount(k))) = drawn(amount(k))

\* C18: the prize of a winner drawn in tier k is
\* floor(floor(pool * pct_k / 100) / quota_k) with pct = 20, 25, 30, 25, for
\* the round's prize_pool and the quota the tier got at the close, and all
\* winners of one tier of one round are recorded with that same amount.
C18_PrizePerWinner ==
    /\ response.op = "GenerateWinner" =>
          LET round == lottery.rounds[response.round_id]
          IN response.prize_amount =
                ExactPrizePerWinner(round.prize_pool, response.pool,
                                    PoolCount(round, response.pool))
    /\ \A id \in DOMAIN lottery.rounds :
          PrizesByTier(lottery, id, ExactPrizePerWinner)

\* the same for the rounds whose pool times 30 fits the Amount type
PrizesInRange ==
    /\ (response.op = "GenerateWinner"
          /\ lottery.rounds[response.round_id].prize_pool * 30 <= AmountMax) =>
          LET round == lottery.rounds[response.round_id]
          IN response.prize_amount =
                ExactPrizePerWinner(round.prize_pool, response.pool,
                                    PoolCount(round, response.pool))
    /\ \A id \in DOMAIN lottery.rounds :
          lottery.rounds[id].prize_pool * 30 <= AmountMax =>
              PrizesByTier(lottery, id, ExactPrizePerWinner)

\* two winners of tier 1 of a round were recorded
TwoWinnersInTier ==
    \E id \in DOMAIN lottery.rounds :
        lottery.rounds[id].pool1_winners_drawn = 2

\* the same for the pools whose product with the percentage fits the Amount
PrizePerWinnerInRange ==
    (response.op = "calculate_prize_per_winner" /\ response.winners_in_pool > 0
       /\ ~PrizeProductOverflows(response.prize_pool, response.pool)) =>
        /\ ~response.panicked
        /\ response.result = Some(ExactPrizePerWinner(response.prize_pool, response.pool,
                                                      response.winners_in_pool))
        /\ (response.prize_pool = 1000 /\ response.pool = "Pool1"
              /\ response.winners_in_pool = 3) => response.result = Some(66)
        /\ response.pool = "Complete" => response.result = Some(0)

\* C20: the tier amount never overflows or wraps: for every prize_pool of the
\* Amount type the computation returns floor(pool * pct / 100).
C20_TierAmountExact ==
    response.op = "calculate_prize_for_pool" =>
        /\ ~response.panicked
        /\ response.result = Some((response.prize_pool * Percentage(response.pool)) \div 100)

\* the same for the pools whose product with the percentage fits the Amount
TierAmountInRange ==
    (response.op = "calculate_prize_for_pool"
       /\ ~PrizeProductOverflows(response.prize_pool, response.pool)) =>
        /\ ~response.panicked
        /\ response.result = Some((response.prize_pool * Percentage(response.pool)) \div 100)

PrizesPaid(st, id) ==
    SumOver(WinnersOf(st, id),
            [w \in WinnersOf(st, id) |-> st.winning_tickets[w].prize_amount])

AllSeeds == 0..(U64Modulus - 1)

\* the round is Closed and the tier under the cursor has a draw left
DrawPending(round) ==
    /\ round.status = "Closed"
    /\ round.current_winner_pool # "Complete"
    /\ PoolDrawn(round, round.current_winner_pool) < PoolCount(round, round.current_winner_pool)

\* C21: for every Closed round whose current tier has a draw left and for
\* every seed, also one whose sum with the attempt counter wraps, the
\* selection loop finds a ticket that has not won within
\* 2 * total_tickets_sold attempts, so the draw does not fail for lack of a
\* ticket.
C21_SelectionTerminates ==
    \A id \in DOMAIN lottery.rounds, seed \in AllSeeds :
        LET round == lottery.rounds[id]
            selected == select_ticket(seed, round.total_tickets_sold,
                                      existing_winners(lottery, id), 0,
                                      round.total_tickets_sold * 2)
        IN DrawPending(round) =>
             /\ IsSome(selected)
             /\ Unwrap(selected) \in 1..round.total_tickets_sold
             /\ Unwrap(selected) \notin existing_winners(lottery, id)
             /\ \A ts \in Timestamps :
                   generate_winner(lottery, seed, id, ts, OneToken).ok

\* a round has a draw left, the first candidate of the largest seed has
\* already won, and the attempts that follow wrap around
C21_Witness ==
    \E id \in DOMAIN lottery.rounds :
        LET round == lottery.rounds[id]
        IN /\ DrawPending(round)
           /\ U64Modulus % round.total_tickets_sold # 0
           /\ ((U64Modulus - 1) % round.total_tickets_sold) + 1 \in existing_winners(lottery, id)
           /\ IsSome(select_ticket(U64Modulus - 1, round.total_tickets_sold,
                                   existing_winners(lottery, id), 0,
                                   round.total_tickets_sold * 2))

\* C22: a Transfer or Claim with the purchase flag, and an incoming
\* TransferForTickets message, complete also when the ticket purchase they
\* trigger fails (no active round, amount below the ticket price).
C22_PurchaseFailureSwallowed ==
    /\ \A o \in Owners, a \in PurchaseAmounts, t \in Owners, l \in BOOLEAN, f \in BOOLEAN :
          TransferOutcome(lottery, o, a, t, l, f).ok
    /\ \A a \in PurchaseAmounts, t \in Owners, f \in BOOLEAN :
          ClaimOutcome(lottery, a, t, f).ok
    /\ \A o \in Owners, a \in PurchaseAmounts, c \in RemoteChains :
          TransferForTicketsOutcome(lottery, o, a, c).ok

\* round ids a draw may name: the stored ones and ids that do not exist
DrawTargets == 0..(MaxLotteryRounds + 1)

\* the round a draw names is missing, still Active or already Complete
NothingToDraw(st, round_id) ==
    \/ round_id \notin DOMAIN st.rounds
    \/ st.rounds[round_id].status \in {"Active", "Complete"}

NoClosedRound(st) ==
    \A id \in DOMAIN st.rounds :
        ~(st.rounds[id].status = "Closed" /\ st.rounds[id].resolved_at = None)

\* what the handlers return for a draw or a resolve that has nothing to act on
DrawAndResolveRejections ==
    /\ \A id \in DrawTargets, seed \in Seeds, ts \in Timestamps :
          LET r == GenerateWinnerOutcome(lottery, id, seed, ts)
          IN NothingToDraw(lottery, id) =>
               /\ ~r.ok
               /\ r.state = lottery
               /\ r.err = (IF id \notin DOMAIN lottery.rounds THEN "Round not found"
                           ELSE "Round is not closed")
    /\ \A p \in ResolutionPrices, ts \in Timestamps :
          LET r == ResolveRoundOutcome(prediction, p, ts)
          IN NoClosedRound(prediction) =>
               /\ ~r.ok
               /\ r.state = prediction
               /\ r.err = "No closed round to resolve"

\* a GenerateWinner or ResolveRound operation that is rejected changes nothing
RejectedDrawOrResolveStep ==
    /\ \A id \in DrawTargets, seed \in Seeds, ts \in Timestamps :
          (NothingToDraw(lottery, id) /\ GenerateWinner(id, seed, ts)) => UNCHANGED vars
    /\ \A p \in ResolutionPrices, ts \in Timestamps :
          (NoClosedRound(prediction) /\ ResolveRound(p, ts)) => UNCHANGED vars

\* C23: GenerateWinner on a round that does not exist, is still Active or is
\* already Complete, and ResolveRound without a Closed round, fail with an
\* explicit error and leave the whole state as it was.
C23_RejectedDrawAndResolve ==
    /\ []DrawAndResolveRejections
    /\ [][RejectedDrawOrResolveStep]_vars

\* the lottery holds a Complete and an Active round after a draw, and every
\* draw is now rejected
C23_Witness ==
    /\ app = "lottery-rounds"
    /\ response.op = "GenerateWinner"
    /\ \E id \in DOMAIN lottery.rounds : lottery.rounds[id].status = "Complete"
    /\ \E id \in DOMAIN lottery.rounds : lottery.rounds[id].status = "Active"
    /\ \A id \in DrawTargets, seed \in Seeds :
          ~GenerateWinnerOutcome(lottery, id, seed, 1).ok

\* the prediction application has resolved its only Closed round
ResolveRejectedWitness ==
    /\ app = "rounds"
    /\ response.op = "ResolveRound"
    /\ NoClosedRound(prediction)
    /\ ~ResolveRoundOutcome(prediction, 2, 1).ok

-----------------------------------------------------------------------------
(* Ticket numbering of the lottery rounds.                                   *)

\* ticket numbers of a round that the ticket-to-owner index holds
TicketsOf(st, round_id) ==
    {k[2] : k \in {q \in DOMAIN st.ticket_to_owner : q[1] = round_id}}

\* counters and index of every stored round agree
TicketIndexDense ==
    \A id \in DOMAIN lottery.rounds :
        /\ lottery.rounds[id].next_ticket_number = lottery.rounds[id].total_tickets_sold + 1
        /\ TicketsOf(lottery, id) = 1..lottery.rounds[id].total_tickets_sold

\* a step keeps the owner of every indexed ticket and numbers the tickets it
\* adds above all tickets the round had
TicketsNumberedUpwards ==
    \A id \in DOMAIN lottery.rounds \cap DOMAIN lottery'.rounds :
        /\ \A t \in TicketsOf(lottery, id) \cap TicketsOf(lottery', id) :
              lottery'.ticket_to_owner[<<id, t>>] = lottery.ticket_to_owner[<<id, t>>]
        /\ \A t \in TicketsOf(lottery', id) \ TicketsOf(lottery, id) :
              \A u \in TicketsOf(lottery, id) : t > u

\* C24: in every stored lottery round next_ticket_number is
\* total_tickets_sold + 1 and the ticket-to-owner index is defined on exactly
\* 1..total_tickets_sold; no ticket number goes to two purchases, and a later
\* purchase is numbered strictly above an earlier one of the same round.
C24_TicketNumbering ==
    /\ []TicketIndexDense
    /\ [][TicketsNumberedUpwards]_vars

-----------------------------------------------------------------------------
(* Round ids.                                                                *)

\* no stored round has an id above the counter
IdsBelowCounter ==
    /\ \A id \in DOMAIN lottery.rounds :
          id <= lottery.round_counter /\ lottery.rounds[id].id = id
    /\ \A id \in DOMAIN prediction.rounds :
          id <= prediction.round_counter /\ prediction.rounds[id].id = id

FreshLotteryRound(round) ==
    /\ round.status = "Active"
    /\ round.prize_pool = 0
    /\ round.total_tickets_sold = 0
    /\ round.next_ticket_number = 1
    /\ round.pool1_count = 0 /\ round.pool2_count = 0
    /\ round.pool3_count = 0 /\ round.pool4_count = 0

FreshPredictionRound(round) ==
    /\ round.status = "Active"
    /\ round.prize_pool = 0
    /\ round.up_bets_pool = 0 /\ round.down_bets_pool = 0
    /\ round.up_bets = 0 /\ round.down_bets = 0

\* the counters never go back; a step that creates a round moves the counter
\* by one and stores a fresh round under the new value, and only there
CreatedRoundStep ==
    /\ lottery'.round_counter \in {lottery.round_counter, lottery.round_counter + 1}
    /\ DOMAIN lottery'.rounds \ DOMAIN lottery.rounds \subseteq {lottery.round_counter + 1}
    /\ lottery'.round_counter # lottery.round_counter =>
          /\ lottery'.round_counter \in DOMAIN lottery'.rounds
          /\ lottery'.rounds[lottery'.round_counter].id = lottery.round_counter + 1
          /\ FreshLotteryRound(lottery'.rounds[lottery'.round_counter])
    /\ DOMAIN lottery'.rounds \ DOMAIN lottery.rounds # {} =>
          lottery'.round_counter = lottery.round_counter + 1
    /\ prediction'.round_counter \in {prediction.round_counter, prediction.round_counter + 1}
    /\ DOMAIN prediction'.rounds \ DOMAIN prediction.rounds \subseteq {prediction.round_counter + 1}
    /\ prediction'.round_counter # prediction.round_counter =>
          /\ prediction'.round_counter \in DOMAIN prediction'.rounds
          /\ prediction'.rounds[prediction'.round_counter].id = prediction.round_counter + 1
          /\ FreshPredictionRound(prediction'.rounds[prediction'.round_counter])
    /\ DOMAIN prediction'.rounds \ DOMAIN prediction.rounds # {} =>
          prediction'.round_counter = prediction.round_counter + 1

\* C25: every created round gets the id counter + 1, so ids strictly increase
\* in creation order and no id is handed out twice, also after older rounds
\* were purged; a new round is Active with zero pool, zero tickets, zero
\* quotas and next_ticket_number = 1.
C25_RoundIds ==
    /\ []IdsBelowCounter
    /\ [][CreatedRoundStep]_vars

\* round 7 was created after rounds 1 and 2 were purged, and it is fresh
C25_Witness ==
    /\ lottery.round_counter = MAX_HISTORY_ROUNDS + 2
    /\ 2 \notin DOMAIN lottery.rounds
    /\ (MAX_HISTORY_ROUNDS + 2) \in DOMAIN lottery.rounds
    /\ FreshLotteryRound(lottery.rounds[MAX_HISTORY_ROUNDS + 2])
    /\ response.op = "CreateRound"

\* the prediction application has created its third round
PredictionIdsWitness ==
    /\ app = "rounds"
    /\ prediction.round_counter = 3
    /\ DOMAIN prediction.rounds = {1, 2, 3}
    /\ FreshPredictionRound(prediction.rounds[3])

-----------------------------------------------------------------------------
(* The history purge of the lottery.                                         *)

\* keys of a sub-record map that belong to a round
KeysOfRound(map, round_id) == {k \in DOMAIN map : k[1] = round_id}

\* a step that creates round N > MAX_HISTORY_ROUNDS leaves nothing of round
\* N - MAX_HISTORY_ROUNDS and removes nothing of any other round
PurgeStep ==
    (/\ lottery'.round_counter = lottery.round_counter + 1
     /\ lottery'.round_counter > MAX_HISTORY_ROUNDS) =>
        LET oldest_round_id == lottery'.round_counter - MAX_HISTORY_ROUNDS
        IN /\ KeysOfRound(lottery'.ticket_to_owner, oldest_round_id) = {}
           /\ KeysOfRound(lottery'.winning_tickets, oldest_round_id) = {}
           /\ KeysOfRound(lottery'.ticket_purchases, oldest_round_id) = {}
           /\ \A id \in 1..lottery.round_counter :
                 id # oldest_round_id =>
                    /\ id \in DOMAIN lottery.rounds => id \in DOMAIN lottery'.rounds
                    /\ KeysOfRound(lottery.ticket_to_owner, id)
                          \subseteq DOMAIN lottery'.ticket_to_owner
                    /\ KeysOfRound(lottery.winning_tickets, id)
                          \subseteq DOMAIN lottery'.winning_tickets
                    /\ KeysOfRound(lottery.ticket_purchases, id)
                          \subseteq DOMAIN lottery'.ticket_purchases

\* C26: when round N > 5 is created, round N - 5 is purged with all its
\* sub-records: no ticket-to-owner entry, no winning-ticket entry and no
\* ticket-purchase record keyed by N - 5 remains, and no record of any other
\* round is removed.
C26_PurgeRemovesSubRecords == [][PurgeStep]_vars

\* the same without the ticket-purchase records: what cleanup_old_round does
\* remove, and what it leaves of the other rounds
PurgeStepIndexOnly ==
    (/\ lottery'.round_counter = lottery.round_counter + 1
     /\ lottery'.round_counter > MAX_HISTORY_ROUNDS) =>
        LET oldest_round_id == lottery'.round_counter - MAX_HISTORY_ROUNDS
        IN /\ KeysOfRound(lottery'.ticket_to_owner, oldest_round_id) = {}
           /\ KeysOfRound(lottery'.winning_tickets, oldest_round_id) = {}
           /\ \A id \in 1..lottery.round_counter :
                 id # oldest_round_id =>
                    /\ id \in DOMAIN lottery.rounds => id \in DOMAIN lottery'.rounds
                    /\ KeysOfRound(lottery.ticket_to_owner, id)
                          \subseteq DOMAIN lottery'.ticket_to_owner
                    /\ KeysOfRound(lottery.winning_tickets, id)
                          \subseteq DOMAIN lottery'.winning_tickets
                    /\ KeysOfRound(lottery.ticket_purchases, id)
                          \subseteq DOMAIN lottery'.ticket_purchases

PurgeRemovesIndex == [][PurgeStepIndexOnly]_vars

-----------------------------------------------------------------------------
(* What a closed lottery round keeps.                                        *)

\* the round a step purges, if it creates a round beyond the history window
PurgedBy(old, new) ==
    IF new.round_counter > old.round_counter /\ new.round_counter > MAX_HISTORY_ROUNDS
    THEN {new.round_counter - MAX_HISTORY_ROUNDS}
    ELSE {}

\* the part of a round that a close fixes
SoldPart(round) ==
    << round.total_tickets_sold, round.next_ticket_number, round.prize_pool,
       round.ticket_price, round.pool1_count, round.pool2_count,
       round.pool3_count, round.pool4_count >>

\* the sub-records of a round in one of the maps
RecordsOfRound(map, round_id) ==
    [k \in KeysOfRound(map, round_id) |-> map[k]]

\* winner records of a round without their claimed flags
WinnersUnclaimed(st, round_id) ==
    [k \in KeysOfRound(st.winning_tickets, round_id) |->
        [st.winning_tickets[k] EXCEPT !.claimed = FALSE]]

\* a step keeps the sold part, the stake records and the ticket index of
\* every round that was Closed or Complete, and everything but the claimed
\* flags of a round that was Complete; the round a step purges is left aside
ClosedRoundKept ==
    \A id \in DOMAIN lottery.rounds \ PurgedBy(lottery, lottery') :
        /\ lottery.rounds[id].status \in {"Closed", "Complete"} =>
              /\ id \in DOMAIN lottery'.rounds
              /\ SoldPart(lottery'.rounds[id]) = SoldPart(lottery.rounds[id])
              /\ RecordsOfRound(lottery'.ticket_purchases, id)
                    = RecordsOfRound(lottery.ticket_purchases, id)
              /\ RecordsOfRound(lottery'.ticket_to_owner, id)
                    = RecordsOfRound(lottery.ticket_to_owner, id)
        /\ lottery.rounds[id].status = "Complete" =>
              /\ lottery'.rounds[id] = lottery.rounds[id]
              /\ WinnersUnclaimed(lottery', id) = WinnersUnclaimed(lottery, id)

\* C27: once a lottery round is Closed, its total_tickets_sold,
\* next_ticket_number, prize_pool, ticket_price, quotas, stake records and
\* ticket-to-owner entries are not modified by any later purchase, close,
\* draw or create; once it is Complete nothing of it changes except claimed
\* flags of its winner records; removal by the history purge aside.
C27_ClosedRoundFrozen == [][ClosedRoundKept]_vars

\* round 1 is Complete and round 2, created by its last draw, was sold and
\* closed and has had its own first draw
C27_Witness ==
    /\ 1 \in DOMAIN lottery.rounds /\ lottery.rounds[1].status = "Complete"
    /\ 2 \in DOMAIN lottery.rounds /\ lottery.rounds[2].status = "Closed"
    /\ lottery.rounds[2].pool1_winners_drawn = 1
    /\ lottery.rounds[1].total_tickets_sold = 6
    /\ lottery.rounds[2].total_tickets_sold = 6
    /\ response.op = "GenerateWinner"

-----------------------------------------------------------------------------
(* What a prediction CloseRound leaves.                                      *)

\* closing prices a close is tried with
AnyClosingPrice == 1..3

\* st is the state before a successful close with the given price, r what
\* close_round returned
ClosePost(st, r, closing_price) ==
    LET round_id == Unwrap(st.active_round)
        bets == st.active_bets
        owners == DOMAIN bets
        closed == r.state.rounds[round_id]
        successor == round_id + 1
    IN /\ closed.status = "Closed"
       /\ closed.closing_price = Some(closing_price)
       /\ closed.up_bets = Cardinality({o \in owners : bets[o].amount_up > 0})
       /\ closed.down_bets = Cardinality({o \in owners : bets[o].amount_down > 0})
       /\ closed.up_bets_pool = SumOver(owners, [o \in owners |-> bets[o].amount_up])
       /\ closed.down_bets_pool = SumOver(owners, [o \in owners |-> bets[o].amount_down])
       /\ closed.prize_pool = closed.up_bets_pool + closed.down_bets_pool
       /\ closed.up_bets_pool = st.rounds[round_id].up_bets_pool
       /\ closed.down_bets_pool = st.rounds[round_id].down_bets_pool
       /\ KeysOfRound(r.state.closed_bets, round_id) = {<<round_id, o>> : o \in owners}
       /\ \A o \in owners : r.state.closed_bets[<<round_id, o>>] = bets[o]
       /\ \A k \in DOMAIN st.closed_bets :
             k \in DOMAIN r.state.closed_bets /\ r.state.closed_bets[k] = st.closed_bets[k]
       /\ DOMAIN r.state.rounds = DOMAIN st.rounds \cup {successor}
       /\ successor \notin DOMAIN st.rounds
       /\ r.state.rounds[successor].id = successor
       /\ FreshPredictionRound(r.state.rounds[successor])
       /\ r.state.active_round = Some(successor)
       /\ r.state.active_bets = EmptyMap
       /\ r.new_round_id = successor

\* every close the current state accepts leaves what the claim says
CloseOutcome ==
    \A p \in AnyClosingPrice, ts \in Timestamps :
        LET r == close_round(prediction, p, ts)
        IN r.ok => ClosePost(prediction, r, p)

\* a CloseRound step answers with the successor's id
CloseAnswersSuccessor ==
    \A p \in ClosingPrices, ts \in Timestamps :
        (RoundsCloseRound(p, ts) /\ prediction' # prediction) =>
            /\ response'.op = "CloseRound"
            /\ response'.round_id = response'.closed_round_id + 1
            /\ prediction'.active_round = Some(response'.round_id)
            /\ prediction'.rounds[response'.closed_round_id].status = "Closed"

-----------------------------------------------------------------------------
(* Draws of a closed lottery round.                                          *)

DrawsDone(round) ==
    round.pool1_winners_drawn + round.pool2_winners_drawn
        + round.pool3_winners_drawn + round.pool4_winners_drawn

QuotaTotal(round) ==
    round.pool1_count + round.pool2_count + round.pool3_count + round.pool4_count

\* a Closed round has fewer draws than its quotas ask for, a Complete round
\* exactly as many; a round closed with 6 tickets has the quotas 1/1/1/1
DrawsCounted ==
    \A id \in DOMAIN lottery.rounds :
        LET round == lottery.rounds[id]
        IN /\ round.status = "Active" => DrawsDone(round) = 0
           /\ round.status = "Closed" => DrawsDone(round) < QuotaTotal(round)
           /\ round.status = "Complete" => DrawsDone(round) = QuotaTotal(round)
           /\ (round.status # "Active" /\ round.total_tickets_sold = 6) =>
                 <<round.pool1_count, round.pool2_count,
                   round.pool3_count, round.pool4_count>> = <<1, 1, 1, 1>>
           /\ round.status = "Complete" =>
                 \A seed \in Seeds, ts \in Timestamps :
                    ~GenerateWinnerOutcome(lottery, id, seed, ts).ok

\* a successful draw counts one draw more for its round
DrawCountedStep ==
    \A id \in DOMAIN lottery.rounds :
        (response'.op = "GenerateWinner" /\ lottery' # lottery /\ response'.round_id = id) =>
            /\ id \in DOMAIN lottery'.rounds
            /\ DrawsDone(lottery'.rounds[id]) = DrawsDone(lottery.rounds[id]) + 1

\* every draw a round has had is a winner record of the round
WinnersRecorded ==
    \A id \in DOMAIN lottery.rounds :
        Cardinality(KeysOfRound(lottery.winning_tickets, id)) = DrawsDone(lottery.rounds[id])

\* C29: a Closed lottery round becomes Complete after exactly
\* pool1_count + pool2_count + pool3_count + pool4_count successful draws,
\* each of which records exactly one winner; a round closed with 6 tickets has
\* quotas 1/1/1/1 and is Complete after exactly 4 draws, after which a further
\* draw on it fails.
C29_CompleteAfterQuotaDraws ==
    /\ []DrawsCounted
    /\ []WinnersRecorded
    /\ [][DrawCountedStep]_vars

\* the same without the winner records
DrawsCountedOnly ==
    /\ []DrawsCounted
    /\ [][DrawCountedStep]_vars

\* a round of 6 tickets is Complete after its fourth draw
SixTicketsFourDraws ==
    /\ response.op = "GenerateWinner"
    /\ response.round_id \in DOMAIN lottery.rounds
    /\ lottery.rounds[response.round_id].status = "Complete"
    /\ lottery.rounds[response.round_id].total_tickets_sold = 6
    /\ DrawsDone(lottery.rounds[response.round_id]) = 4
    /\ Cardinality(KeysOfRound(lottery.winning_tickets, response.round_id)) = 4

-----------------------------------------------------------------------------
(* Tier quotas of a close.                                                   *)

\* floor(T * pct / 100), and 1 when that is 0
QuotaOf(total_tickets, pct) ==
    IF (total_tickets * pct) \div 100 = 0 THEN 1 ELSE (total_tickets * pct) \div 100

\* the round is Closed with the quotas of its ticket count and the cursor on tier 1
QuotasSet(round) ==
    /\ round.status = "Closed"
    /\ round.current_winner_pool = "Pool1"
    /\ round.pool1_count = QuotaOf(round.total_tickets_sold, 15)
    /\ round.pool2_count = QuotaOf(round.total_tickets_sold, 7)
    /\ round.pool3_count = QuotaOf(round.total_tickets_sold, 5)
    /\ round.pool4_count = QuotaOf(round.total_tickets_sold, 3)

\* the lottery after CreateRound at price 2 and one purchase of the given
\* number of tickets
LotteryWithTickets(total_tickets) ==
    purchase_tickets(create_lottery_round(LotteryInit, 2, 1),
                     "o1", 2 * total_tickets, None).state

\* every close the current state accepts sets the quotas, and so does a close
\* of a round with any ticket count from 4 up to what one purchase can buy
CloseSetsQuotas ==
    /\ \A ts \in Timestamps :
          LET r == close_lottery_round(lottery, ts)
          IN r.ok =>
               /\ lottery.rounds[Unwrap(lottery.active_round)].total_tickets_sold >= 4
               /\ QuotasSet(r.state.rounds[Unwrap(lottery.active_round)])
    /\ \A total_tickets \in 4..(U64Modulus - 1) :
          LET r == close_lottery_round(LotteryWithTickets(total_tickets), 1)
          IN /\ r.ok
             /\ QuotasSet(r.state.rounds[1])
             /\ QuotaTotal(r.state.rounds[1]) <= total_tickets

\* every Closed round has each quota at least 1 and all four within its tickets
ClosedQuotasInRange ==
    \A id \in DOMAIN lottery.rounds :
        lottery.rounds[id].status = "Closed" =>
            /\ lottery.rounds[id].pool1_count >= 1
            /\ lottery.rounds[id].pool2_count >= 1
            /\ lottery.rounds[id].pool3_count >= 1
            /\ lottery.rounds[id].pool4_count >= 1
            /\ QuotaTotal(lottery.rounds[id]) <= lottery.rounds[id].total_tickets_sold

\* C30: closing a lottery round with T >= 4 tickets sets the tier quotas to
\* floor(T*15/100), floor(T*7/100), floor(T*5/100) and floor(T*3/100), each
\* replaced by 1 when it floors to 0, and sets the cursor to tier 1; every
\* Closed round has each quota >= 1 and the four quotas together within T.
C30_QuotasOfClose == CloseSetsQuotas /\ ClosedQuotasInRange

\* a round of 14 tickets has just been closed with quotas 2/1/1/1
C30_Witness ==
    /\ response.op = "CloseRound"
    /\ \E id \in DOMAIN lottery.rounds :
          /\ lottery.rounds[id].status = "Closed"
          /\ lottery.rounds[id].total_tickets_sold = 14
          /\ QuotasSet(lottery.rounds[id])
          /\ lottery.rounds[id].pool1_count = 2
          /\ lottery.rounds[id].pool2_count = 1

-----------------------------------------------------------------------------
(* The ticket a draw selects.                                                *)

\* candidate of an attempt, the sum taken in the integers
CandidateExact(seed, attempt, total) == ((seed + attempt) % total) + 1

\* candidate of an attempt, the sum taken in 64-bit words
CandidateWrapped(seed, attempt, total) == (((seed + attempt) % U64Modulus) % total) + 1

\* attempts whose candidate, taken from the given table, has not won
FreeAttempts(candidates, winners, total) ==
    {a \in 0..(2 * total - 1) : candidates[a] \notin winners}

SmallestOf(S) == CHOOSE a \in S : \A b \in S : a <= b

\* default ticket prices a draw may be given; they do not enter the selection
AnyDefaultPrice == {2, OneToken}

\* every draw on a round with a draw left selects the first candidate of the
\* table that has not won, gives it to the owner the index stores for it, and
\* neither timestamp nor default price changes that
SelectionFollows(wrapped) ==
    \A id \in DOMAIN lottery.rounds, seed \in AllSeeds :
        LET round == lottery.rounds[id]
            total == round.total_tickets_sold
            winners == KeysOfRound(lottery.winning_tickets, id)
            won == {k[2] : k \in winners}
            candidates == [a \in 0..(2 * total - 1) |->
                              IF wrapped THEN CandidateWrapped(seed, a, total)
                              ELSE CandidateExact(seed, a, total)]
            free == FreeAttempts(candidates, won, total)
        IN DrawPending(round) =>
             \A ts \in 1..2, price \in AnyDefaultPrice :
                LET r == generate_winner(lottery, seed, id, ts, price)
                IN /\ r.ok
                   /\ free # {}
                   /\ r.ticket_number = candidates[SmallestOf(free)]
                   /\ r.owner = lottery.ticket_to_owner[<<id, r.ticket_number>>]

\* C31 as stated: the draw selects ((s + a) mod T) + 1 for the smallest a
\* whose ticket has not won, and the winner is the owner the index stores.
C31_SelectsFirstFreeExact == SelectionFollows(FALSE)

\* C31: the draw selects (((s + a) mod 2^64) mod T) + 1 for the smallest
\* attempt a >= 0 whose ticket is not yet a winner of the round, the winner
\* is the owner the ticket-to-owner index stores for that ticket, and the
\* result depends on the seed and the stored state only.
C31_SelectsFirstFree == SelectionFollows(TRUE)

\* a draw has recorded a second winner of a round whose ticket count does not
\* divide 2^64, so that some seed's later attempts wrap past a winner
C31_Witness ==
    /\ response.op = "GenerateWinner"
    /\ response.round_id \in DOMAIN lottery.rounds
    /\ Cardinality(KeysOfRound(lottery.winning_tickets, response.round_id)) >= 2
    /\ DrawPending(lottery.rounds[response.round_id])
    /\ U64Modulus % lottery.rounds[response.round_id].total_tickets_sold # 0
    /\ \E seed \in AllSeeds :
          CandidateWrapped(seed, 0, lottery.rounds[response.round_id].total_tickets_sold)
             \in {k[2] : k \in KeysOfRound(lottery.winning_tickets, response.round_id)}

-----------------------------------------------------------------------------
(* One truncation or two.                                                    *)

\* floor(pool * pct / (100 * quota)): the prize with a single truncation
SingleTruncation(prize_pool, pool, winners_in_pool) ==
    (prize_pool * Percentage(pool)) \div (100 * winners_in_pool)

\* C32: for every pool, tier and quota >= 1 the per-winner prize, computed
\* with a truncation after the percentage and another after the division by
\* the quota, equals floor(pool * pct / (100 * quota)).
C32_TwoStepsEqualOne ==
    (response.op = "calculate_prize_per_winner" /\ response.winners_in_pool >= 1) =>
        /\ ~response.panicked
        /\ response.result = Some(SingleTruncation(response.prize_pool, response.pool,
                                                   response.winners_in_pool))

\* the same for pools whose product with the percentage fits the type
TwoStepsEqualOneInRange ==
    (response.op = "calculate_prize_per_winner" /\ response.winners_in_pool >= 1
       /\ ~PrizeProductOverflows(response.prize_pool, response.pool)) =>
        /\ ~response.panicked
        /\ response.result = Some(SingleTruncation(response.prize_pool, response.pool,
                                                   response.winners_in_pool))

-----------------------------------------------------------------------------
(* Participant counters of the active prediction round.                      *)

\* owners with a stake on a side among the active bets
OwnersUp(st) == {o \in DOMAIN st.active_bets : st.active_bets[o].amount_up # 0}
OwnersDown(st) == {o \in DOMAIN st.active_bets : st.active_bets[o].amount_down # 0}

\* C33: while the round the bets go to is Active, up_bets is the number of
\* owners whose accumulated up amount is non-zero and down_bets the number
\* whose accumulated down amount is non-zero, also after bets of amount zero
\* and repeated bets of one owner.
C33_CountersCountOwners ==
    (IsSome(prediction.active_round)
       /\ Unwrap(prediction.active_round) \in DOMAIN prediction.rounds
       /\ prediction.rounds[Unwrap(prediction.active_round)].status = "Active") =>
        LET round == prediction.rounds[Unwrap(prediction.active_round)]
        IN /\ round.up_bets = Cardinality(OwnersUp(prediction))
           /\ round.down_bets = Cardinality(OwnersDown(prediction))

\* an owner has bet twice on one side and once on the other
RepeatedBetsCounted ==
    /\ app = "rounds"
    /\ response.op = "PlaceBet"
    /\ \E o \in DOMAIN prediction.active_bets :
          /\ prediction.active_bets[o].amount_up = 2
          /\ prediction.active_bets[o].amount_down = 1
    /\ prediction.rounds[Unwrap(prediction.active_round)].up_bets = 1
    /\ prediction.rounds[Unwrap(prediction.active_round)].down_bets = 1

-----------------------------------------------------------------------------
(* The order of the statuses.                                                *)

StatusRank(status) ==
    CASE status = "Active" -> 0
      [] status = "Closed" -> 1
      [] status \in {"Complete", "Resolved"} -> 2

\* a step moves the status of a stored round forward or not at all, and to
\* the final status only from Closed
StatusForward(rounds_before, rounds_after, final) ==
    \A id \in DOMAIN rounds_before \cap DOMAIN rounds_after :
        LET before == rounds_before[id].status
            after == rounds_after[id].status
        IN /\ after \in {"Active", "Closed", final}
           /\ StatusRank(after) >= StatusRank(before)
           /\ before = "Active" => after \in {"Active", "Closed"}
           /\ before = final => after = final

\* a round enters storage Active
StartsActive(rounds_before, rounds_after) ==
    \A id \in DOMAIN rounds_after \ DOMAIN rounds_before :
        rounds_after[id].status = "Active"

StatusStep ==
    /\ StatusForward(lottery.rounds, lottery'.rounds, "Complete")
    /\ StartsActive(lottery.rounds, lottery'.rounds)
    /\ StatusForward(prediction.rounds, prediction'.rounds, "Resolved")
    /\ StartsActive(prediction.rounds, prediction'.rounds)

\* C34: the status of a round only moves forward along Active -> Closed ->
\* Complete (lottery) or Active -> Closed -> Resolved (prediction): no step
\* moves a round back, none takes it to the final status from Active, and a
\* round in the final status keeps it.
C34_StatusForward == [][StatusStep]_vars

\* a lottery round is Complete and its successor Closed with a tier drawn out
C34_Witness ==
    /\ app = "lottery-rounds"
    /\ \E id \in DOMAIN lottery.rounds : lottery.rounds[id].status = "Complete"
    /\ \E id \in DOMAIN lottery.rounds :
          /\ lottery.rounds[id].status = "Closed"
          /\ lottery.rounds[id].current_winner_pool = "Pool2"

\* a prediction round is Resolved, another Closed and a third Active
PredictionStatusWitness ==
    /\ app = "rounds"
    /\ \E id \in DOMAIN prediction.rounds : prediction.rounds[id].status = "Resolved"
    /\ \E id \in DOMAIN prediction.rounds : prediction.rounds[id].status = "Closed"
    /\ \E id \in DOMAIN prediction.rounds : prediction.rounds[id].status = "Active"

-----------------------------------------------------------------------------
(* A round with draws left and the history purge.                            *)

\* a step keeps every Closed round with draws left, and its ticket index
PendingRoundKept ==
    \A id \in DOMAIN lottery.rounds :
        DrawPending(lottery.rounds[id]) =>
            /\ id \in DOMAIN lottery'.rounds
            /\ KeysOfRound(lottery.ticket_to_owner, id) \subseteq DOMAIN lottery'.ticket_to_owner

\* a Closed round with draws left has its tickets indexed, and a draw on it
\* succeeds once the lottery application is known
PendingRoundDrawable ==
    \A id \in DOMAIN lottery.rounds :
        DrawPending(lottery.rounds[id]) =>
            /\ TicketsOf(lottery, id) = 1..lottery.rounds[id].total_tickets_sold
            /\ IsSome(lottery.lottery_app_id) =>
                  \A seed \in PurgeSeeds, ts \in Timestamps :
                     GenerateWinnerOutcome(lottery, id, seed, ts).ok

\* C35: a Closed round whose tier quotas are not all met is never removed by
\* the history purge: whatever CreateRound operations come between the
\* draws, the round and its ticket-to-owner entries stay in storage and
\* GenerateWinner on it keeps succeeding until the round is Complete.
C35_PendingRoundNotPurged ==
    /\ []PendingRoundDrawable
    /\ [][PendingRoundKept]_vars

-----------------------------------------------------------------------------
(* The history window.                                                       *)

\* at most MAX_HISTORY_ROUNDS rounds are stored, the most recent ones
HistoryWindow ==
    /\ Cardinality(DOMAIN lottery.rounds) <= MAX_HISTORY_ROUNDS
    /\ \A id \in DOMAIN lottery.rounds : id + MAX_HISTORY_ROUNDS > lottery.round_counter

\* the winner a draw returns is a winner record afterwards
ReturnedWinnerStored ==
    (app = "lottery-rounds" /\ response.op = "GenerateWinner") =>
        /\ <<response.round_id, response.ticket_number>> \in DOMAIN lottery.winning_tickets
        /\ lottery.winning_tickets[<<response.round_id, response.ticket_number>>].owner
              = response.owner

\* C36: lottery-rounds stores at most MAX_HISTORY_ROUNDS rounds, all with ids
\* above round_counter - 5, so a purged round never reappears; the draw that
\* completes a round and creates its successor does not write back a round
\* the creation has purged, and the winner it returns is in winning_tickets.
C36_HistoryBounded == HistoryWindow /\ ReturnedWinnerStored

\* the window alone, for histories in which no draw purges its own round
WindowUntilOwnPurge ==
    (\A id \in DOMAIN lottery.rounds :
        lottery.rounds[id].status = "Complete" => TicketsOf(lottery, id) # {})
      => HistoryWindow

-----------------------------------------------------------------------------
(* Accepted bets stay with their round.                                      *)

\* a step keeps every active bet with the active round, or moves it to
\* closed_bets under that round; closed bets stay or move to resolved_bets
BetsKept ==
    /\ \A o \in DOMAIN prediction.active_bets :
          LET r == Unwrap(prediction.active_round)
          IN \/ /\ prediction'.active_round = prediction.active_round
                /\ o \in DOMAIN prediction'.active_bets
                /\ prediction'.active_bets[o].amount_up >= prediction.active_bets[o].amount_up
                /\ prediction'.active_bets[o].amount_down >= prediction.active_bets[o].amount_down
             \/ /\ <<r, o>> \in DOMAIN prediction'.closed_bets
                /\ prediction'.closed_bets[<<r, o>>] = prediction.active_bets[o]
    /\ \A k \in DOMAIN prediction.closed_bets :
          \/ k \in DOMAIN prediction'.closed_bets
                /\ prediction'.closed_bets[k] = prediction.closed_bets[k]
          \/ k \in DOMAIN prediction'.resolved_bets
                /\ prediction'.resolved_bets[k] = prediction.closed_bets[k]

\* every Active round that holds stakes is the one CloseRound would close
StakedRoundClosable ==
    \A id \in DOMAIN prediction.rounds :
        (prediction.rounds[id].status = "Active" /\ prediction.rounds[id].prize_pool > 0) =>
            /\ prediction.active_round = Some(id)
            /\ \A p \in ClosingPrices, ts \in Timestamps :
                  close_round(prediction, p, ts).ok

\* the bets of a Closed round are in closed_bets and add up to its prize_pool
ClosedBetsAddUp ==
    \A id \in DOMAIN prediction.rounds :
        prediction.rounds[id].status = "Closed" =>
            LET keys == KeysOfRound(prediction.closed_bets, id)
            IN SumOver(keys, [k \in keys |-> prediction.closed_bets[k].amount_up
                                             + prediction.closed_bets[k].amount_down])
                  = prediction.rounds[id].prize_pool

\* C37: every bet PlaceBet accepted into a round stays recorded for that
\* round: no operation, CreateRound during an Active round included, discards
\* it; every round that accepted bets can still be closed, and after the close
\* its bets are in closed_bets under its id and add up to its prize_pool.
C37_AcceptedBetsKept ==
    /\ []StakedRoundClosable
    /\ []ClosedBetsAddUp
    /\ [][BetsKept]_vars

\* the same for histories in which CreateRound is not used on an Active round
BetsKeptUnlessRecreated ==
    [][(~(response'.op = "CreateRound" /\ IsSome(prediction.active_round))) => BetsKept]_vars

-----------------------------------------------------------------------------
(* The active_round pointer.                                                 *)

\* the pointer is empty, or names the round created last, stored and Active
PointerIsNewest(st) ==
    IsSome(st.active_round) =>
        /\ Unwrap(st.active_round) = st.round_counter
        /\ Unwrap(st.active_round) \in DOMAIN st.rounds
        /\ st.rounds[Unwrap(st.active_round)].status = "Active"

\* the rounds stored before a step, other than the one the pointer names,
\* are stored unchanged after it
OnlyPointedRoundTouched(before, after) ==
    \A id \in DOMAIN before.rounds :
        before.active_round # Some(id) =>
            id \in DOMAIN after.rounds /\ after.rounds[id] = before.rounds[id]

\* a purchase, a bet or a close touches no round but the one the pointer names
PointerStep ==
    /\ (lottery'.rounds # lottery.rounds
          /\ response'.op \in {"PurchaseTickets", "CloseRound"}) =>
          /\ IsSome(lottery.active_round)
          /\ OnlyPointedRoundTouched(lottery, lottery')
          /\ lottery'.rounds[Unwrap(lottery.active_round)] # lottery.rounds[Unwrap(lottery.active_round)]
    /\ (prediction'.rounds # prediction.rounds
          /\ response'.op \in {"PlaceBet", "CloseRound"}) =>
          /\ IsSome(prediction.active_round)
          /\ OnlyPointedRoundTouched(prediction, prediction')
          /\ prediction'.rounds[Unwrap(prediction.active_round)]
                # prediction.rounds[Unwrap(prediction.active_round)]

\* C38: in lottery-rounds and in rounds the active_round pointer is empty or
\* equal to round_counter, and that round is stored with status Active;
\* purchases, bets and CloseRound read and modify only the round the pointer
\* names.
C38_PointerIsNewestRound ==
    /\ [](PointerIsNewest(lottery) /\ PointerIsNewest(prediction))
    /\ [][PointerStep]_vars

\* a purchase went to round 7 while older rounds are stored, one of them
\* Active as well
C38_Witness ==
    /\ response.op = "PurchaseTickets"
    /\ lottery.round_counter = MAX_HISTORY_ROUNDS + 2
    /\ lottery.active_round = Some(MAX_HISTORY_ROUNDS + 2)
    /\ lottery.rounds[MAX_HISTORY_ROUNDS + 2].total_tickets_sold > 0
    /\ \E id \in DOMAIN lottery.rounds :
          id < lottery.round_counter /\ lottery.rounds[id].status = "Active"

\* a bet went to prediction round 2 while round 1 is still Active
PredictionPointerWitness ==
    /\ app = "rounds"
    /\ response.op = "PlaceBet"
    /\ prediction.active_round = Some(2)
    /\ prediction.rounds[1].status = "Active"
    /\ prediction.rounds[2].prize_pool > 0

-----------------------------------------------------------------------------
(* Pools of a prediction round, accumulated and recomputed.                  *)

\* the prize pool of every stored round is the sum of its two side pools
PoolsAddUp ==
    \A id \in DOMAIN prediction.rounds :
        prediction.rounds[id].prize_pool
            = prediction.rounds[id].up_bets_pool + prediction.rounds[id].down_bets_pool

\* the pools a close would store are the pools the bets had accumulated
RecomputedPoolsMatch ==
    \A p \in ClosingPrices, ts \in Timestamps :
        LET r == close_round(prediction, p, ts)
        IN r.ok =>
             LET id == Unwrap(prediction.active_round)
             IN /\ r.state.rounds[id].up_bets_pool = prediction.rounds[id].up_bets_pool
                /\ r.state.rounds[id].down_bets_pool = prediction.rounds[id].down_bets_pool
                /\ r.state.rounds[id].prize_pool = prediction.rounds[id].prize_pool

\* C39: for every stored prediction round prize_pool = up_bets_pool +
\* down_bets_pool, and the pools CloseRound recomputes from the stored bets
\* are the pools PlaceBet had accumulated on the round just before the close.
C39_PoolsAgree == PoolsAddUp /\ RecomputedPoolsMatch

\* a round has just been closed with stakes of 2 on Up and 1 on Down from two owners
C39_Witness ==
    /\ response.op = "CloseRound"
    /\ prediction.rounds[response.closed_round_id].up_bets_pool = 2
    /\ prediction.rounds[response.closed_round_id].down_bets_pool = 1
    /\ Cardinality(KeysOfRound(prediction.closed_bets, response.closed_round_id)) = 2

-----------------------------------------------------------------------------
(* The round a ResolveRound resolves.                                        *)

ClosedRounds(st) == {id \in DOMAIN st.rounds : st.rounds[id].status = "Closed"}

NewestClosed(st) == CHOOSE id \in ClosedRounds(st) : \A other \in ClosedRounds(st) : other <= id

\* a ResolveRound call would be accepted now
ResolveAccepted ==
    \E p \in ResolutionPrices, ts \in Timestamps : ResolveRoundOutcome(prediction, p, ts).ok

\* every resolve the current state accepts resolves the newest Closed round,
\* with the price of the call, and leaves every other round as it was
ResolveTakesNewest ==
    \A p \in ResolutionPrices, ts \in Timestamps :
        LET r == ResolveRoundOutcome(prediction, p, ts)
        IN r.ok =>
             /\ ClosedRounds(prediction) # {}
             /\ r.response.round_id = NewestClosed(prediction)
             /\ r.state.rounds[NewestClosed(prediction)].status = "Resolved"
             /\ r.state.rounds[NewestClosed(prediction)].resolution_price = Some(p)
             /\ \A id \in DOMAIN prediction.rounds :
                   id # NewestClosed(prediction) => r.state.rounds[id] = prediction.rounds[id]
             /\ DOMAIN r.state.rounds = DOMAIN prediction.rounds

\* a step resolves a round only when no newer round is Closed, one at a time
ResolveStep ==
    \A id \in DOMAIN prediction.rounds :
        (prediction.rounds[id].status = "Closed" /\ prediction'.rounds[id].status = "Resolved") =>
            /\ id = NewestClosed(prediction)
            /\ response'.op = "ResolveRound" /\ response'.round_id = id
            /\ prediction'.rounds[id].resolution_price = Some(response'.resolution_price)
            /\ ClosedRounds(prediction') = ClosedRounds(prediction) \ {id}

ResolveOrder ==
    /\ []ResolveTakesNewest
    /\ [][ResolveStep]_vars

=============================================================================
